---- MODULE Spec2Model ----
(***************************************************************************)
(* DriveAnalizer: the disk-I/O monitor loop (src-tauri/src/monitor.rs),    *)
(* the ProcessMonitor delta tracker (src-tauri/src/process_monitor.rs),    *)
(* the commands that signal the loop (src-tauri/src/lib.rs) and the tables *)
(* they write (src-tauri/src/db.rs).                                       *)
(*                                                                         *)
(* Spec    is the monitor loop of monitor.rs with the reset_database       *)
(*         command and the window-close handler running beside it.         *)
(* PMSpec  is one ProcessMonitor object whose public methods are called    *)
(*         in any order.                                                   *)
(*                                                                         *)
(* The counter source (sysinfo) is the environment: on every refresh it    *)
(* hands the code, for each live pid, a name and the two values of         *)
(* disk_usage(), which process_monitor.rs:64-65 documents as cumulative    *)
(* since the process started.  Any value may follow any value, so counter  *)
(* resets, pid reuse and name changes are all among the inputs.            *)
(***************************************************************************)
EXTENDS Integers, Sequences, FiniteSets, TLC

\* ------------------------------------------------------------------ bounds
\* Process ids and process names the counter source may report.
Pids == {1, 2}
Names == {"a", "b"}
\* The (read_bytes, written_bytes) pairs disk_usage() reports to the loop.
DiskUsages == {<<0, 0>>, <<1, 0>>, <<0, 1>>}
\* The (read_bytes, written_bytes) pairs disk_usage() reports to a ProcessMonitor.
PmDiskUsages == {<<0, 0>>, <<1, 0>>, <<2, 0>>, <<0, 1>>}
\* Largest session total (read plus write) the monitor loop is driven to.
MaxBytes == 2
\* Number of ticks the monitor loop is driven through.
MaxTicks == 3
\* Largest grand total (read plus write) a ProcessMonitor is driven to.
MaxPmBytes == 2
\* Number of failures (of the external metrics, an emission, a batch insert
\* or a reset_database) the monitor loop's surroundings come up with.
MaxFaults == 1

\* The program's numbers, scaled down to what can be enumerated.
\* u64::MAX (2^64 - 1 in the code): the arithmetic below keeps a width, and
\* the bounds above keep every reachable value far below it.
U64Max == 65535
\* The most that process_history stores in all, read plus write.
MaxDbBytes == 3
\* Largest keep_days and sample_interval a RetentionPolicy is built with.
MaxPolicyValue == 6
\* Largest value either all-time total is driven to.
MaxAlltimeBytes == 2
\* Most rows the disk_stats table holds where batches are inserted by hand.
MaxRows == 2
\* The 60 of `buffer.len() >= 60`: the loop flushes at this many DiskStats.
FlushThreshold == 2
\* A duration threshold for the flush, in tick periods: the time in which
\* FlushThreshold DiskStats are buffered at one tick a period.
DurationThreshold == 2
\* The 50 of `truncate(50)` and `stats.len() > 50`: the top-processes limit.
TopLimit == 1

\* --------------------------------------------------------------- integers
Min(a, b) == IF a <= b THEN a ELSE b

\* u64 `+` / `+=` as a release build computes it (a debug build panics
\* where this wraps).
U64Add(a, b) == (a + b) % (U64Max + 1)

\* u64::saturating_add
SaturatingAdd(a, b) == Min(a + b, U64Max)

\* u64::abs_diff: the distance, whichever of the two is larger.
AbsDiff(a, b) == IF a >= b THEN a - b ELSE b - a

\* u64::saturating_sub
SaturatingSub(a, b) == IF a >= b THEN a - b ELSE 0

\* The values f[x], x \in S, added up with `+=` (the code's for-loops over
\* a HashMap and its .sum(); the addition is commutative and associative,
\* so the order of iteration does not show).
RECURSIVE U64Sum(_, _)
U64Sum(S, f) ==
    IF S = {} THEN 0
    ELSE LET x == CHOOSE y \in S : TRUE
         IN  U64Add(f[x], U64Sum(S \ {x}, f))

\* The same with saturating_add.
RECURSIVE SaturatingSum(_, _)
SaturatingSum(S, f) ==
    IF S = {} THEN 0
    ELSE LET x == CHOOSE y \in S : TRUE
         IN  SaturatingAdd(f[x], SaturatingSum(S \ {x}, f))

\* The values f[x], x \in S, added up as integers.
RECURSIVE Sum(_, _)
Sum(S, f) ==
    IF S = {} THEN 0
    ELSE LET x == CHOOSE y \in S : TRUE
         IN  f[x] + Sum(S \ {x}, f)

\* ------------------------------------------------------ the counter source
\* What sys.processes() yields for one pid after a refresh.
ProcInfo(usages) ==
    {[name |-> n, read_bytes |-> u[1], written_bytes |-> u[2]] : n \in Names, u \in usages}

\* sys.processes() after sys.refresh_processes(ProcessesToUpdate::All).
Snapshots == UNION {[S -> ProcInfo(DiskUsages)] : S \in SUBSET Pids}

\* The same with one process at most.
QuietSnapshots == UNION {[S -> ProcInfo(DiskUsages)] : S \in SUBSET {1}}

QuietPmSnapshots == UNION {[S -> ProcInfo(PmDiskUsages)] : S \in SUBSET {1}}

PmSnapshots == UNION {[S -> ProcInfo(PmDiskUsages)] : S \in SUBSET Pids}

NoProcesses == [p \in {} |-> 0]

\* ProcessIOAccumulator { name, read_bytes: 0, write_bytes: 0 }
NewAccumulator(name) == [name |-> name, read_bytes |-> 0, write_bytes |-> 0]

NonZero(acc) == acc.read_bytes > 0 \/ acc.write_bytes > 0

\* ------------------------------------------------------------------ state
VARIABLES
    \* the monitor loop (monitor.rs, init_monitoring)
    pc,                    \* where the loop task is: "top", "reset_store", "flush",
                           \* "sleep", "stopped"; "killed" once the process
                           \* ended with the loop not stopped
    buffer,                \* Vec<DiskStat>: Samples not yet written
    sys,                   \* sys.processes() as of the last refresh
    known_pids,            \* HashSet<u32>
    session_read_bytes,
    session_write_bytes,
    tick_count,
    dead_process_history,  \* name -> (read, write)
    accumulators,          \* the shared ProcessAccumulators map: pid -> accumulator
    poisoned,              \* the poison flag of the Mutex around that map
    stat,                  \* the DiskStat built on the last tick
    emitted,               \* the "disk-metrics" event of the last tick: <<stat>>, or <<>> for none
    output,                \* what the PowerShell child of the last tick came to
    top_processes,         \* the "top-processes" event of the last tick: <<list>>, or <<>> for none
    reset_signal,
    shutdown_signal,
    window,                \* the main window: "open", "closing" (its handler runs), "closed"
    \* durable tables (db.rs)
    disk_stats,            \* rows in insertion order
    process_history,       \* name -> (read, write)
    \* history: the tick deltas added up since the last reset
    delta_sum_read,
    delta_sum_write,
    \* the surroundings of a run: "busy" (the processes of Pids, and nothing
    \* fails) or "lone" (one process at most, and up to MaxFaults failures)
    world,
    \* history: the failures so far
    faults,
    \* history: a reset_database has stored the flag and the loop has not
    \* cleared its state since
    reset_pending,
    \* history: tick_count as of the last flush (0 before the first)
    last_flush,
    \* one ProcessMonitor (process_monitor.rs)
    pm_sys,                    \* self.sys.processes() as of the last refresh
    pm_dead_process_history,   \* name -> (read, write)
    pm_last_process_snapshot,  \* name -> (read, write): totals as of the last get_deltas_for_db
    pm_accumulators,           \* pid -> accumulator
    pm_last_seen_by_pid,       \* pid -> (read, write)
    pm_returned,               \* the last call and the value it returned
    \* history: name -> (read, write), the deltas get_deltas_for_db has
    \* returned for the name since the last reset, added up
    pm_reported,
    \* the callers of db.rs
    db_returned,               \* the last call of db.rs, what it was passed and returned
    \* history: name -> (read, write), the deltas passed to the successful
    \* calls of update_process_history since process_history was last emptied
    db_passed,
    \* the rest of the application (db.rs, lib.rs)
    alltime_totals,            \* the row of the alltime_totals table: (read_bytes, write_bytes)
    db_pool,                   \* the managed DbPool, an Option: "None" or "Some"
    \* the maintenance schedulers (scheduled_tasks.rs): for each its place
    \* ("off": not spawned, "interval": at interval.tick().await, "run": at
    \* its statement, "vacuum": at the VACUUM after a cleanup) and what its
    \* last run and its last VACUUM printed ("none", "ok", "err")
    schedulers

loop_vars == <<pc, buffer, sys, known_pids, session_read_bytes, session_write_bytes,
               tick_count, dead_process_history, accumulators, poisoned, stat, emitted, output,
               top_processes, reset_signal, shutdown_signal, window, disk_stats,
               process_history, delta_sum_read, delta_sum_write, world, faults,
               reset_pending, last_flush>>

pm_vars == <<pm_sys, pm_dead_process_history, pm_last_process_snapshot,
             pm_accumulators, pm_last_seen_by_pid, pm_returned, pm_reported>>

app_vars == <<alltime_totals, db_pool, schedulers>>

db_vars == <<db_returned, db_passed, app_vars>>

vars == <<loop_vars, pm_vars, db_vars>>

\* ------------------------------------------- the maintenance schedulers
Schedulers == {"cleanup", "analyze", "wal_checkpoint"}

\* No scheduler task: init_db has not returned Ok.
NotSpawned == [s \in Schedulers |-> [pc |-> "off", last |-> "none", vacuum |-> "none"]]

\* The three tasks as spawned after init_db returned Ok.
Spawned == [s \in Schedulers |-> [pc |-> "interval", last |-> "none", vacuum |-> "none"]]

\* ------------------------------------------------- the external metrics
\* Option<f64>: <<>> is None, <<x>> is Some(x).
UnwrapOr(opt, default) == IF opt = <<>> THEN default ELSE opt[1]

\* What the PowerShell child can come to: no usable output (it could not be
\* spawned, exited with a failure, or printed no PsMetrics JSON), or a
\* PsMetrics { it, qd }.
NoOutput == [usable |-> FALSE, it |-> <<>>, qd |-> <<>>]

PsOutputs == {NoOutput, [usable |-> TRUE, it |-> <<1>>, qd |-> <<1>>]}

\* The pair get_disk_perf_metrics_safe falls back to: 100 % idle, queue 0.
DefaultMetrics == <<100, 0>>

\* (idle, queue)
PsMetrics(out) ==
    IF out.usable
    THEN <<UnwrapOr(out.it, 0), UnwrapOr(out.qd, 0)>>
    ELSE <<0, 0>>

\* ------------------------------------------------- the loop's delta pass
\* The tick's (current_read_speed, current_write_speed): the disk_usage()
\* values of the pids already known, added up; a pid seen for the first
\* time is skipped.
LoopTickDelta(known, snap) ==
    LET counted == DOMAIN snap \cap known
    IN  <<U64Sum(counted, [p \in counted |-> snap[p].read_bytes]),
          U64Sum(counted, [p \in counted |-> snap[p].written_bytes])>>

\* The accumulator map after the loop over sys.processes(): a new pid gets
\* a zero entry unless one is there already, a known pid has its
\* disk_usage() values added to its entry.
LoopAccumulate(acc, known, snap) ==
    [p \in DOMAIN acc \cup DOMAIN snap |->
        IF p \notin DOMAIN snap THEN acc[p]
        ELSE LET entry == IF p \in DOMAIN acc THEN acc[p]
                          ELSE NewAccumulator(snap[p].name)
             IN  IF p \notin known THEN entry
                 ELSE [entry EXCEPT
                         !.read_bytes = U64Add(@, snap[p].read_bytes),
                         !.write_bytes = U64Add(@, snap[p].written_bytes)]]

\* dead_process_history after the accumulators of the pids in `dead` were
\* removed and, unless both zero, added to the entry of their name.
LoopFoldDead(hist, acc, dead) ==
    LET folded == {p \in dead : NonZero(acc[p])}
        names == DOMAIN hist \cup {acc[p].name : p \in folded}
    IN  [n \in names |->
            LET old == IF n \in DOMAIN hist THEN hist[n] ELSE <<0, 0>>
                ps == {p \in folded : acc[p].name = n}
            IN  <<U64Add(old[1], U64Sum(ps, [p \in ps |-> acc[p].read_bytes])),
                  U64Add(old[2], U64Sum(ps, [p \in ps |-> acc[p].write_bytes]))>>]

\* No retain: a pid stays known after its process is gone.
RetainAll(known, active) == known

\* known_pids.retain(|pid| active_pids.contains(pid))
RetainActive(known, active) == known \cap active

\* session_read_bytes = current_read_speed: the total overwritten, not added to.
OverwriteSessionTotal(total, speed) == speed

\* session_read_bytes += current_read_speed
NextSessionTotal(total, speed) == U64Add(total, speed)

\* Where the loop goes after the batch insert of a flush: on to the sleep,
\* whether the insert succeeded or not.
StopOnInsertError(ok) == IF ok THEN "sleep" ELSE "stopped"

AfterInsert(ok) == "sleep"

\* The buffer is cleared only if the insert went through.
KeptOnError(buf, ok) == IF ok THEN <<>> ELSE buf

\* buffer.clear(), whatever insert_stats_batch returned.
Cleared(buf, ok) == <<>>

\* buffer.len() > 60: one Sample late.
ThresholdExceeded(len) == len > FlushThreshold

\* buffer.len() >= 60
ThresholdReached(len) == len >= FlushThreshold

\* ------------------------------------------------ the top-processes list
\* `grouped`: the dead-process history, plus the non-zero accumulators of
\* the pids of sys.processes() under the name sys reports for them.
GroupByName(hist, acc, snap) ==
    LET live == {p \in DOMAIN snap \cap DOMAIN acc : NonZero(acc[p])}
        names == DOMAIN hist \cup {snap[p].name : p \in live}
    IN  [n \in names |->
            LET old == IF n \in DOMAIN hist THEN hist[n] ELSE <<0, 0>>
                ps == {p \in live : snap[p].name = n}
            IN  <<U64Add(old[1], U64Sum(ps, [p \in ps |-> acc[p].read_bytes])),
                  U64Add(old[2], U64Sum(ps, [p \in ps |-> acc[p].write_bytes]))>>]

\* ProcessIOStat { pid: 0, name, exe_path, read_bytes, write_bytes, total_bytes }
ProcessIOStat(name, r, w) ==
    [name |-> name, read_bytes |-> r, write_bytes |-> w, total_bytes |-> U64Add(r, w)]

\* sort_by(|a, b| a.total_bytes.cmp(&b.total_bytes)): the operands swapped,
\* total_bytes non-decreasing.
SortedAscending(grouped) ==
    LET n == Cardinality(DOMAIN grouped)
        entries == {ProcessIOStat(name, grouped[name][1], grouped[name][2]) :
                        name \in DOMAIN grouped}
    IN  {s \in [1..n -> entries] :
            /\ \A i, j \in 1..n : i # j => s[i] # s[j]
            /\ \A i, j \in 1..n : i < j => s[i].total_bytes <= s[j].total_bytes}

\* The orders sort_by(|a, b| b.total_bytes.cmp(&a.total_bytes)) can leave the
\* entries of a HashMap in: every arrangement with total_bytes non-increasing
\* (the sort is stable, the HashMap's iteration order is arbitrary).
SortedByTotal(grouped) ==
    LET n == Cardinality(DOMAIN grouped)
        entries == {ProcessIOStat(name, grouped[name][1], grouped[name][2]) :
                        name \in DOMAIN grouped}
    IN  {s \in [1..n -> entries] :
            /\ \A i, j \in 1..n : i # j => s[i] # s[j]
            /\ \A i, j \in 1..n : i < j => s[i].total_bytes >= s[j].total_bytes}

\* Vec::truncate
Truncate(s, len) == SubSeq(s, 1, Min(len, Len(s)))

\* The lists the loop can emit as "top-processes".
LoopTopProcesses(hist, acc, snap) ==
    {Truncate(s, TopLimit) : s \in SortedByTotal(GroupByName(hist, acc, snap))}

\* --------------------------------------------------------------- storage
\* `x as i64`
AsI64(x) == IF x > U64Max \div 2 THEN x - (U64Max + 1) ELSE x

\* The row insert_stats_batch binds for one DiskStat.
Row(s) ==
    [timestamp |-> s.timestamp,
     read_bytes |-> AsI64(s.read_bytes), write_bytes |-> AsI64(s.write_bytes),
     read_speed |-> AsI64(s.read_speed), write_speed |-> AsI64(s.write_speed)]

RECURSIVE Rows(_)
Rows(stats) == IF stats = <<>> THEN <<>> ELSE <<Row(Head(stats))>> \o Rows(Tail(stats))

\* Rows for all but the last DiskStat of a batch that failed.
PartBeforeError(table, stats, ok) ==
    IF ok THEN table \o Rows(stats)
    ELSE table \o Rows(SubSeq(stats, 1, Len(stats) - 1))

\* insert_stats_batch: one transaction; it commits every row or none.
InsertStatsBatch(table, stats, ok) == IF ok THEN table \o Rows(stats) ELSE table

\* The `stats` update_process_history can be passed: deltas for some names.
DbDeltas == {<<0, 0>>, <<1, 0>>, <<0, 2>>}
DbStats == UNION {[S -> DbDeltas] : S \in SUBSET Names}

\* What is stored in all, read plus write over the names.
StoredTotal(table) == Sum(DOMAIN table, [n \in DOMAIN table |-> table[n][1] + table[n][2]])

\* ON CONFLICT(name) DO UPDATE SET read_bytes = excluded.read_bytes, ...:
\* the row of a name in `stats` is overwritten.
MergeOverwrite(table, stats) ==
    [n \in DOMAIN table \cup DOMAIN stats |->
        IF n \in DOMAIN stats THEN <<AsI64(stats[n][1]), AsI64(stats[n][2])>>
        ELSE table[n]]

\* The upsert of update_process_history, over the names of `stats`: a name
\* without a row gets one with the bound values, the row of a name that has
\* one gets them added.
MergeAdd(table, stats) ==
    [n \in DOMAIN table \cup DOMAIN stats |->
        IF n \notin DOMAIN stats THEN table[n]
        ELSE IF n \notin DOMAIN table THEN <<AsI64(stats[n][1]), AsI64(stats[n][2])>>
        ELSE <<table[n][1] + AsI64(stats[n][1]), table[n][2] + AsI64(stats[n][2])>>]

\* `x as u64`
AsU64(x) == IF x < 0 THEN x + (U64Max + 1) ELSE x

\* ------------------------------------------------------- ProcessMonitor
\* ProcessMonitor::new
PmNew ==
    /\ pm_sys = NoProcesses
    /\ pm_dead_process_history = NoProcesses
    /\ pm_last_process_snapshot = NoProcesses
    /\ pm_accumulators = NoProcesses
    /\ pm_last_seen_by_pid = NoProcesses
    /\ pm_returned = [call |-> "new"]

\* No baseline: a pid with no values last seen counts with its counters.
PidDeltaFromZero(last_seen, snap, p) ==
    IF p \in DOMAIN last_seen
    THEN <<SaturatingSub(snap[p].read_bytes, last_seen[p][1]),
           SaturatingSub(snap[p].written_bytes, last_seen[p][2])>>
    ELSE <<snap[p].read_bytes, snap[p].written_bytes>>

\* (r_delta, w_delta) of one pid: the difference to the values last seen,
\* or (0, 0) for a pid with no values last seen.
PidDelta(last_seen, snap, p) ==
    IF p \in DOMAIN last_seen
    THEN <<SaturatingSub(snap[p].read_bytes, last_seen[p][1]),
           SaturatingSub(snap[p].written_bytes, last_seen[p][2])>>
    ELSE <<0, 0>>

\* last_seen_by_pid after the loop over sys.processes().
PmBaseline(last_seen, snap) ==
    [p \in DOMAIN last_seen \cup DOMAIN snap |->
        IF p \in DOMAIN snap THEN <<snap[p].read_bytes, snap[p].written_bytes>>
        ELSE last_seen[p]]

\* The accumulator map after the loop over sys.processes(): an entry for
\* every pid of the snapshot, under the name the snapshot reports, with the
\* pid's delta added.
PmAccumulate(acc, last_seen, snap) ==
    [p \in DOMAIN acc \cup DOMAIN snap |->
        IF p \notin DOMAIN snap THEN acc[p]
        ELSE LET entry == IF p \in DOMAIN acc THEN acc[p]
                          ELSE NewAccumulator(snap[p].name)
                 d == PidDelta(last_seen, snap, p)
             IN  [name |-> snap[p].name,
                  read_bytes |-> IF d[1] > 0 \/ d[2] > 0
                                 THEN SaturatingAdd(entry.read_bytes, d[1])
                                 ELSE entry.read_bytes,
                  write_bytes |-> IF d[1] > 0 \/ d[2] > 0
                                  THEN SaturatingAdd(entry.write_bytes, d[2])
                                  ELSE entry.write_bytes]]

\* (tick_read_delta, tick_write_delta)
PmTickDelta(last_seen, snap) ==
    <<SaturatingSum(DOMAIN snap,
              [p \in DOMAIN snap |-> PidDelta(last_seen, snap, p)[1]]),
      SaturatingSum(DOMAIN snap,
              [p \in DOMAIN snap |-> PidDelta(last_seen, snap, p)[2]])>>

\* acc.read_bytes > 0 && acc.write_bytes > 0: both, where the code asks for either.
FoldsIfBoth(acc) == acc.read_bytes > 0 /\ acc.write_bytes > 0

\* No test at all: every dead pid's accumulator is added to the history.
FoldsAlways(acc) == TRUE

\* A dead pid's accumulator is added to the history if
\* acc.read_bytes > 0 || acc.write_bytes > 0.
Folds(acc) == NonZero(acc)

\* dead_process_history after the pids in `dead` were removed: the
\* accumulators among them that fold are added to the entry of their name.
PmFoldDead(hist, acc, dead) ==
    LET folded == {p \in dead \cap DOMAIN acc : Folds(acc[p])}
        names == DOMAIN hist \cup {acc[p].name : p \in folded}
    IN  [n \in names |->
            LET old == IF n \in DOMAIN hist THEN hist[n] ELSE <<0, 0>>
                ps == {p \in folded : acc[p].name = n}
            IN  <<SaturatingAdd(old[1],
                      SaturatingSum(ps, [p \in ps |-> acc[p].read_bytes])),
                  SaturatingAdd(old[2],
                      SaturatingSum(ps, [p \in ps |-> acc[p].write_bytes]))>>]

\* Read plus write over the accumulators and the dead-process history.
GrandTotal(hist, acc) ==
    Sum(DOMAIN hist, [n \in DOMAIN hist |-> hist[n][1] + hist[n][2]])
    + Sum(DOMAIN acc, [p \in DOMAIN acc |-> acc[p].read_bytes + acc[p].write_bytes])

\* ProcessMonitor::update
PmUpdate ==
    /\ \E snap \in IF world = "busy" THEN PmSnapshots ELSE QuietPmSnapshots :
         LET live == PmAccumulate(pm_accumulators, pm_last_seen_by_pid, snap)
             seen == PmBaseline(pm_last_seen_by_pid, snap)
             dead_pids == DOMAIN seen \ DOMAIN snap
             acc == [p \in DOMAIN live \ dead_pids |-> live[p]]
             hist == PmFoldDead(pm_dead_process_history, live, dead_pids)
         IN  /\ GrandTotal(hist, acc) <= MaxPmBytes
             /\ pm_sys' = snap
             /\ pm_last_seen_by_pid' = [p \in DOMAIN seen \ dead_pids |-> seen[p]]
             /\ pm_accumulators' = acc
             /\ pm_dead_process_history' = hist
             /\ pm_returned' = [call |-> "update",
                                value |-> PmTickDelta(pm_last_seen_by_pid, snap)]
    /\ UNCHANGED <<pm_last_process_snapshot, pm_reported>>
    /\ UNCHANGED <<loop_vars, db_vars>>

\* ProcessMonitor::reset
PmReset ==
    /\ pm_dead_process_history' = NoProcesses
    /\ pm_last_process_snapshot' = NoProcesses
    /\ pm_last_seen_by_pid' = NoProcesses
    /\ pm_accumulators' = NoProcesses
    /\ pm_returned' = [call |-> "reset"]
    /\ pm_reported' = NoProcesses
    /\ UNCHANGED pm_sys
    /\ UNCHANGED <<loop_vars, db_vars>>

\* The "Others" entry for what the truncation cut off, if that is not zero.
Others(all, kept) ==
    LET sum_read(s) == U64Sum(1..Len(s), [i \in 1..Len(s) |-> s[i].read_bytes])
        sum_write(s) == U64Sum(1..Len(s), [i \in 1..Len(s) |-> s[i].write_bytes])
        other_read == SaturatingSub(sum_read(all), sum_read(kept))
        other_write == SaturatingSub(sum_write(all), sum_write(kept))
    IN  IF other_read > 0 \/ other_write > 0
        THEN <<ProcessIOStat("Others", other_read, other_write)>>
        ELSE <<>>

\* The lists get_top_processes can return.
PmTopProcesses(hist, acc, snap) ==
    {IF Len(s) > TopLimit THEN Truncate(s, TopLimit) \o Others(s, Truncate(s, TopLimit)) ELSE s :
        s \in SortedByTotal(GroupByName(hist, acc, snap))}

\* ProcessMonitor::get_top_processes
PmGetTopProcesses ==
    /\ \E list \in PmTopProcesses(pm_dead_process_history, pm_accumulators, pm_sys) :
         pm_returned' = [call |-> "get_top_processes", value |-> list]
    /\ UNCHANGED <<pm_sys, pm_dead_process_history, pm_last_process_snapshot,
                   pm_accumulators, pm_last_seen_by_pid, pm_reported>>
    /\ UNCHANGED <<loop_vars, db_vars>>

\* `current_totals`: the dead-process history plus the accumulators, each
\* under the name it carries.
CurrentTotals(hist, acc) ==
    LET names == DOMAIN hist \cup {acc[p].name : p \in DOMAIN acc}
    IN  [n \in names |->
            LET old == IF n \in DOMAIN hist THEN hist[n] ELSE <<0, 0>>
                ps == {p \in DOMAIN acc : acc[p].name = n}
            IN  <<SaturatingAdd(old[1],
                      SaturatingSum(ps, [p \in ps |-> acc[p].read_bytes])),
                  SaturatingAdd(old[2],
                      SaturatingSum(ps, [p \in ps |-> acc[p].write_bytes]))>>]

\* The delta of one name against last_process_snapshot.
NameDelta(totals, snapshot, n) ==
    LET old == IF n \in DOMAIN snapshot THEN snapshot[n] ELSE <<0, 0>>
    IN  <<SaturatingSub(totals[n][1], old[1]), SaturatingSub(totals[n][2], old[2])>>

\* name -> (read, write) maps added entry by entry.
AddEntries(a, b) ==
    [n \in DOMAIN a \cup DOMAIN b |->
        LET x == IF n \in DOMAIN a THEN a[n] ELSE <<0, 0>>
            y == IF n \in DOMAIN b THEN b[n] ELSE <<0, 0>>
        IN  <<x[1] + y[1], x[2] + y[2]>>]

\* The names whose delta against last_process_snapshot is not (0, 0).
Changed(totals, snapshot) ==
    {n \in DOMAIN totals :
        \/ NameDelta(totals, snapshot, n)[1] > 0
        \/ NameDelta(totals, snapshot, n)[2] > 0}

\* `deltas`: what get_deltas_for_db returns.
Deltas(totals, snapshot) ==
    [n \in Changed(totals, snapshot) |-> NameDelta(totals, snapshot, n)]

\* The for-loop without its two assignments to the snapshot: every name of
\* the totals gets its entry, and no entry is ever set to a total.
SnapshotNotAdvanced(totals, snapshot) ==
    [n \in DOMAIN snapshot \cup DOMAIN totals |->
        IF n \in DOMAIN snapshot THEN snapshot[n] ELSE <<0, 0>>]

\* last_process_snapshot as left by the for-loop that filled `deltas`: every
\* name of the totals has an entry (or_insert((0, 0))), and the entry of a
\* name with a delta is set to the name's total.
SnapshotAfter(totals, snapshot) ==
    [n \in DOMAIN snapshot \cup DOMAIN totals |->
        IF n \in Changed(totals, snapshot) THEN totals[n]
        ELSE IF n \in DOMAIN snapshot THEN snapshot[n] ELSE <<0, 0>>]

\* ProcessMonitor::get_deltas_for_db
PmGetDeltasForDb ==
    LET totals == CurrentTotals(pm_dead_process_history, pm_accumulators)
        deltas == Deltas(totals, pm_last_process_snapshot)
    IN  /\ pm_returned' = [call |-> "get_deltas_for_db", value |-> deltas]
        /\ pm_reported' = AddEntries(pm_reported, deltas)
        /\ pm_last_process_snapshot' = SnapshotAfter(totals, pm_last_process_snapshot)
        /\ UNCHANGED <<pm_sys, pm_dead_process_history, pm_accumulators, pm_last_seen_by_pid>>
        /\ UNCHANGED <<loop_vars, db_vars>>

\* ------------------------------------------------------------- the loop
NoStat == [timestamp |-> 0, read_bytes |-> 0, write_bytes |-> 0,
           read_speed |-> 0, write_speed |-> 0, idle_time |-> 0, queue_depth |-> 0]

\* The loop task, the flags, the window and the tables at the start.
LoopInit ==
    /\ pc = "top"
    /\ buffer = <<>>
    /\ sys = NoProcesses
    /\ known_pids = {}
    /\ session_read_bytes = 0
    /\ session_write_bytes = 0
    /\ tick_count = 0
    /\ dead_process_history = NoProcesses
    /\ accumulators = NoProcesses
    /\ poisoned = FALSE
    /\ stat = NoStat
    /\ emitted = <<>>
    /\ output = NoOutput
    /\ top_processes = <<>>
    /\ reset_signal = FALSE
    /\ shutdown_signal = FALSE
    /\ window = "open"
    /\ disk_stats = <<>>
    /\ process_history = NoProcesses
    /\ delta_sum_read = 0
    /\ delta_sum_write = 0
    /\ world \in {"busy", "lone"}
    /\ faults = 0
    /\ reset_pending = FALSE
    /\ last_flush = 0
    /\ db_returned = [call |-> "init_db"]
    /\ db_passed = NoProcesses
    /\ alltime_totals = <<0, 0>>
    /\ db_pool = "Some"
    /\ schedulers = Spawned

Init ==
    /\ LoopInit
    /\ PmNew
    /\ pm_reported = NoProcesses

\* 1 for an operation that failed, 0 for one that did not.
Failed(ok) == IF ok THEN 0 ELSE 1

\* The failures a run may see in all, and whether it may see k more.
FaultBudget == IF world = "lone" THEN MaxFaults ELSE 0
MayFail(k) == faults + k <= FaultBudget

\* The snapshots a refresh of the loop's System may come to.
WorldSnapshots == IF world = "busy" THEN Snapshots ELSE QuietSnapshots

\* The push happens only if the emit went through.
PushedIfEmitted(buf, s, emit_ok) == IF emit_ok THEN Append(buf, s) ELSE buf

\* buffer.push(stat.clone()), whatever app.emit("disk-metrics", &stat) returned.
Pushed(buf, s, emit_ok) == Append(buf, s)

\* The process runs until the window's close handler has returned.
Running == window # "closed"

\* Top of the loop with the shutdown flag set: write what is buffered, leave.
ShutdownExit ==
    /\ Running
    /\ pc = "top"
    /\ shutdown_signal
    /\ IF buffer # <<>>
          THEN \E ok \in BOOLEAN :
                   /\ MayFail(Failed(ok))
                   /\ faults' = faults + Failed(ok)
                   /\ disk_stats' = InsertStatsBatch(disk_stats, buffer, ok)
          ELSE UNCHANGED <<disk_stats, faults>>
    /\ pc' = "stopped"
    /\ UNCHANGED <<buffer, sys, known_pids, session_read_bytes, session_write_bytes,
                   tick_count, dead_process_history, accumulators, poisoned, stat, emitted, output,
                   top_processes, reset_signal, shutdown_signal, window, process_history,
                   delta_sum_read, delta_sum_write, reset_pending, last_flush>>
    /\ UNCHANGED <<world, pm_vars, db_vars>>

\* The reset check with the reset flag loaded as set: the clearing of the
\* loop's state; the store of false into the flag is yet to come.
ResetClear ==
    /\ Running
    /\ pc = "top"
    /\ ~shutdown_signal
    /\ reset_signal
    /\ tick_count < MaxTicks
    /\ session_read_bytes' = 0
    /\ session_write_bytes' = 0
    /\ known_pids' = {}
    /\ buffer' = <<>>
    /\ dead_process_history' = NoProcesses
    /\ delta_sum_read' = 0
    /\ delta_sum_write' = 0
    /\ reset_pending' = FALSE
    /\ pc' = "reset_store"
    /\ UNCHANGED <<sys, tick_count, accumulators, poisoned, stat, emitted, output, top_processes,
                   reset_signal, shutdown_signal, window, disk_stats, process_history,
                   faults, last_flush>>
    /\ UNCHANGED <<world, pm_vars, db_vars>>

\* The rest of one pass of the loop body, from the store of false into the
\* reset flag (after a clearing) or from the reset check with the flag
\* loaded as clear: the refresh and the delta pass, the session totals, the
\* external metrics, the DiskStat, the events and the push.  A tick whose
\* accumulators.lock() fails skips the delta pass and builds the
\* top-processes list from the dead-process history alone; lock() fails on
\* a poisoned Mutex, and a poisoned Mutex stays poisoned.
TickPass(lock_ok) ==
    /\ Running
    /\ \/ pc = "top" /\ ~shutdown_signal /\ ~reset_signal
       \/ pc = "reset_store"
    /\ tick_count < MaxTicks
    /\ \E snap \in WorldSnapshots :
         LET speed == IF lock_ok THEN LoopTickDelta(known_pids, snap) ELSE <<0, 0>>
             live == LoopAccumulate(accumulators, known_pids, snap)
             dead_pids == DOMAIN live \ DOMAIN snap
             acc == IF lock_ok THEN [p \in DOMAIN live \ dead_pids |-> live[p]]
                    ELSE accumulators
             hist == IF lock_ok THEN LoopFoldDead(dead_process_history, live, dead_pids)
                     ELSE dead_process_history
             read_bytes == NextSessionTotal(session_read_bytes, speed[1])
             write_bytes == NextSessionTotal(session_write_bytes, speed[2])
             top_due == (tick_count + 1) % 2 = 0
         IN  /\ read_bytes + write_bytes <= MaxBytes
             /\ poisoned => ~lock_ok
             /\ poisoned' = ~lock_ok
             /\ reset_signal' = FALSE
             /\ sys' = snap
             /\ accumulators' = acc
             /\ dead_process_history' = hist
             /\ known_pids' = IF lock_ok
                              THEN RetainActive(known_pids \cup DOMAIN snap, DOMAIN snap)
                              ELSE known_pids
             /\ session_read_bytes' = read_bytes
             /\ session_write_bytes' = write_bytes
             /\ tick_count' = tick_count + 1
             /\ delta_sum_read' = delta_sum_read + speed[1]
             /\ delta_sum_write' = delta_sum_write + speed[2]
             /\ \E out \in PsOutputs, emit_ok \in BOOLEAN, top_ok \in BOOLEAN :
                  LET metrics == PsMetrics(out)
                      s == [timestamp |-> tick_count + 1,
                            read_bytes |-> read_bytes, write_bytes |-> write_bytes,
                            read_speed |-> speed[1], write_speed |-> speed[2],
                            idle_time |-> metrics[1], queue_depth |-> metrics[2]]
                      pending == Pushed(buffer, s, emit_ok)
                      failures == Failed(lock_ok) + Failed(out.usable)
                                      + Failed(emit_ok) + Failed(top_ok)
                  IN  /\ top_due \/ top_ok
                      /\ MayFail(failures)
                      /\ faults' = faults + failures
                      /\ stat' = s
                      /\ output' = out
                      /\ emitted' = IF emit_ok THEN <<s>> ELSE <<>>
                      /\ IF top_due /\ top_ok
                            THEN \E list \in LoopTopProcesses(hist,
                                              IF lock_ok THEN acc ELSE NoProcesses, snap) :
                                     top_processes' = <<list>>
                            ELSE top_processes' = <<>>
                      /\ buffer' = pending
                      /\ pc' = IF ThresholdReached(Len(pending)) THEN "flush" ELSE "sleep"
    /\ UNCHANGED <<shutdown_signal, window, disk_stats, process_history, reset_pending,
                   last_flush>>
    /\ UNCHANGED <<world, pm_vars, db_vars>>

Tick == \E lock_ok \in BOOLEAN : TickPass(lock_ok)

\* buffer.len() >= 60: the batch insert, then buffer.clear().
Flush ==
    /\ Running
    /\ pc = "flush"
    /\ \E ok \in BOOLEAN :
         /\ MayFail(Failed(ok))
         /\ faults' = faults + Failed(ok)
         /\ disk_stats' = InsertStatsBatch(disk_stats, buffer, ok)
         /\ pc' = AfterInsert(ok)
         /\ buffer' = Cleared(buffer, ok)
    /\ last_flush' = tick_count
    /\ UNCHANGED <<sys, known_pids, session_read_bytes, session_write_bytes,
                   tick_count, dead_process_history, accumulators, poisoned, stat, emitted, output,
                   top_processes, reset_signal, shutdown_signal, window, process_history,
                   delta_sum_read, delta_sum_write, reset_pending>>
    /\ UNCHANGED <<world, pm_vars, db_vars>>

\* sleep(Duration::from_millis(1000)) has run its full time.
SleepElapsed ==
    /\ Running
    /\ pc = "sleep"
    /\ pc' = "top"
    /\ UNCHANGED <<buffer, sys, known_pids, session_read_bytes, session_write_bytes,
                   tick_count, dead_process_history, accumulators, poisoned, stat, emitted, output,
                   top_processes, reset_signal, shutdown_signal, window, disk_stats,
                   process_history, delta_sum_read, delta_sum_write, faults, reset_pending,
                   last_flush>>
    /\ UNCHANGED <<world, pm_vars, db_vars>>

\* ------------------------------------------------------------ the commands
\* The reset_database command.  Without a pool it returns its error at
\* once.  With one it measures the files, deletes the rows of disk_stats,
\* zeroes the all-time totals, deletes the rows of process_history, compacts
\* and measures again, each a step of its own outside any transaction: the
\* first step that fails ends the command with an error and leaves what the
\* steps before it did.  Only a command that got through them all stores
\* the reset flag and emits "database-reset".  (`found` is history: the
\* rows of process_history as the command found them.)
ResetOutcomes == {"ok", "err_before_clear", "err_after_disk_stats",
                  "err_after_totals", "err_after_history"}

\* The outcomes that leave the rows of disk_stats, the all-time totals and
\* the rows of process_history in place.
KeepsDiskStats == {"err_no_pool", "err_before_clear"}
KeepsTotals == KeepsDiskStats \cup {"err_after_disk_stats"}
\* A reset that deletes no row of process_history, whatever its outcome.
KeepsHistoryAlways == KeepsTotals \cup {"err_after_totals", "err_after_history", "ok"}
KeepsHistory == KeepsTotals \cup {"err_after_totals"}

ResetDatabase ==
    /\ Running
    /\ \E outcome \in IF db_pool = "Some" THEN ResetOutcomes ELSE {"err_no_pool"} :
         /\ MayFail(Failed(outcome \in {"ok", "err_no_pool"}))
         /\ faults' = faults + Failed(outcome \in {"ok", "err_no_pool"})
         /\ disk_stats' = IF outcome \in KeepsDiskStats THEN disk_stats ELSE <<>>
         /\ alltime_totals' = IF outcome \in KeepsTotals THEN alltime_totals ELSE <<0, 0>>
         /\ process_history' = IF outcome \in KeepsHistory THEN process_history
                                ELSE NoProcesses
         /\ reset_signal' = IF outcome = "ok" THEN TRUE ELSE reset_signal
         /\ reset_pending' = IF outcome = "ok" THEN TRUE ELSE reset_pending
         /\ db_passed' = IF outcome \in KeepsHistory THEN db_passed ELSE NoProcesses
         /\ db_returned' = [call |-> "reset_database", found |-> process_history,
                            ok |-> outcome = "ok",
                            emitted |-> IF outcome = "ok" THEN <<"database-reset">>
                                        ELSE <<>>]
    /\ UNCHANGED <<pc, buffer, sys, known_pids, session_read_bytes, session_write_bytes,
                   tick_count, dead_process_history, accumulators, poisoned, stat, emitted, output,
                   top_processes, shutdown_signal, window, delta_sum_read, delta_sum_write,
                   last_flush>>
    /\ UNCHANGED <<world, pm_vars, db_pool, schedulers>>

\* The window's CloseRequested handler, up to its sleeps: the shutdown flag
\* is stored and the waiters of shutdown_notify (there are none) are notified.
CloseRequested ==
    /\ window = "open"
    /\ shutdown_signal' = TRUE
    /\ window' = "closing"
    /\ UNCHANGED <<pc, buffer, sys, known_pids, session_read_bytes, session_write_bytes,
                   tick_count, dead_process_history, accumulators, poisoned, stat, emitted, output,
                   top_processes, reset_signal, disk_stats, process_history,
                   delta_sum_read, delta_sum_write, faults, reset_pending,
                   last_flush>>
    /\ UNCHANGED <<world, pm_vars, db_vars>>

\* The handler's sleeps (1000 ms, then 200 ms) are over: it returns, the
\* window closes and the process ends, and with it the loop task, wherever
\* it is, and all that is held in memory; the tables stay.
CloseProceed ==
    /\ window = "closing"
    /\ window' = "closed"
    /\ pc' = IF pc = "stopped" THEN "stopped" ELSE "killed"
    /\ buffer' = <<>>
    /\ sys' = NoProcesses
    /\ known_pids' = {}
    /\ session_read_bytes' = 0
    /\ session_write_bytes' = 0
    /\ tick_count' = 0
    /\ dead_process_history' = NoProcesses
    /\ accumulators' = NoProcesses
    /\ poisoned' = FALSE
    /\ stat' = NoStat
    /\ emitted' = <<>>
    /\ output' = NoOutput
    /\ top_processes' = <<>>
    /\ reset_signal' = FALSE
    /\ delta_sum_read' = 0
    /\ delta_sum_write' = 0
    /\ reset_pending' = FALSE
    /\ last_flush' = 0
    /\ UNCHANGED <<shutdown_signal, disk_stats, process_history, faults>>
    /\ UNCHANGED <<world, pm_vars, db_vars>>

Next ==
    \/ ShutdownExit
    \/ ResetClear
    \/ Tick
    \/ Flush
    \/ SleepElapsed
    \/ ResetDatabase
    \/ CloseRequested
    \/ CloseProceed

Spec == Init /\ [][Next]_vars

\* update_process_history: one transaction, which commits the upsert of
\* every name of `stats` or, after an error, none.
UpdateProcessHistory ==
    /\ \E stats \in DbStats, ok \in BOOLEAN :
         /\ StoredTotal(MergeAdd(process_history, stats)) <= MaxDbBytes
         /\ process_history' = IF ok THEN MergeAdd(process_history, stats)
                                ELSE process_history
         /\ db_passed' = IF ok THEN AddEntries(db_passed, stats) ELSE db_passed
         /\ db_returned' = [call |-> "update_process_history", stats |-> stats, ok |-> ok]
    /\ UNCHANGED <<pc, buffer, sys, known_pids, session_read_bytes, session_write_bytes,
                   tick_count, dead_process_history, accumulators, poisoned, stat, emitted, output,
                   top_processes, reset_signal, shutdown_signal, window, disk_stats,
                   delta_sum_read, delta_sum_write, world, faults, reset_pending,
                   last_flush>>
    /\ UNCHANGED <<pm_vars, app_vars>>

\* clear_alltime_totals: the totals row is zeroed, then process_history is
\* emptied, each by a statement of its own; `done` is how many of the two
\* went through, and the first that fails ends the call with its error.
ClearAlltimeTotals ==
    /\ \E done \in 0..2 :
         /\ alltime_totals' = IF done >= 1 THEN <<0, 0>> ELSE alltime_totals
         /\ process_history' = IF done = 2 THEN NoProcesses ELSE process_history
         /\ db_passed' = IF done = 2 THEN NoProcesses ELSE db_passed
         /\ db_returned' = [call |-> "clear_alltime_totals", ok |-> done = 2]
    /\ UNCHANGED <<pc, buffer, sys, known_pids, session_read_bytes, session_write_bytes,
                   tick_count, dead_process_history, accumulators, poisoned, stat, emitted, output,
                   top_processes, reset_signal, shutdown_signal, window, disk_stats,
                   delta_sum_read, delta_sum_write, world, faults, reset_pending,
                   last_flush>>
    /\ UNCHANGED <<pm_vars, db_pool, schedulers>>

\* get_process_history: every row, its two values `as u64`.
GetProcessHistory ==
    /\ db_returned' =
           [call |-> "get_process_history",
            value |-> [n \in DOMAIN process_history |->
                          <<AsU64(process_history[n][1]), AsU64(process_history[n][2])>>]]
    /\ UNCHANGED <<loop_vars, pm_vars, db_passed, app_vars>>

DbInit == Init /\ world = "lone"

DbNext ==
    \/ UpdateProcessHistory
    \/ ClearAlltimeTotals
    \/ GetProcessHistory

DbSpec == DbInit /\ [][DbNext]_vars

\* ------------------------------------------- the start of the application
\* MAX(col) over the rows of disk_stats, NULL (<<>>) for no rows.
MaxColumn(table, col) ==
    IF table = <<>> THEN <<>>
    ELSE <<CHOOSE m \in {table[i][col] : i \in 1..Len(table)} :
             \A i \in 1..Len(table) : table[i][col] <= m>>

\* get_max_session_totals, when its query goes through.
MaxSessionTotals(table) ==
    <<AsU64(UnwrapOr(MaxColumn(table, "read_bytes"), 0)),
      AsU64(UnwrapOr(MaxColumn(table, "write_bytes"), 0))>>

\* update_alltime_totals, when its statement goes through.
UpdateAlltimeTotals(totals, delta) ==
    <<totals[1] + AsI64(delta[1]), totals[2] + AsI64(delta[2])>>

\* The DiskStats of the batches inserted by hand, and the batches.
BatchStats ==
    {[NoStat EXCEPT !.read_bytes = t[1], !.write_bytes = t[2]] :
        t \in {<<0, 0>>, <<1, 0>>, <<0, 1>>}}
Batches == UNION {[1..n -> BatchStats] : n \in 1..MaxRows}

\* The loop task has not run: memory is as constructed.
AtStart == pc = "top" /\ tick_count = 0 /\ buffer = <<>> /\ window = "open"

\* A start of the application, which is a call of init_db: whatever comes
\* before the recovery fails (Err, nothing touched) or not; then comes
\* get_max_session_totals (its error ends init_db); totals that are not both
\* zero are added to the all-time totals, an error of which is only
\* printed; then the rows of disk_stats are deleted (an error of which ends
\* init_db).  If init_db returned Ok the pool is stored in the managed
\* DbPool and the three schedulers are spawned.
InitDb ==
    /\ AtStart
    /\ \E max_ok \in BOOLEAN, add_ok \in BOOLEAN, delete_ok \in BOOLEAN :
         LET totals == MaxSessionTotals(disk_stats)
             added == max_ok /\ (totals[1] > 0 \/ totals[2] > 0) /\ add_ok
             after == IF added THEN UpdateAlltimeTotals(alltime_totals, totals)
                      ELSE alltime_totals
         IN  /\ after[1] <= MaxAlltimeBytes
             /\ after[2] <= MaxAlltimeBytes
             /\ alltime_totals' = after
             /\ disk_stats' = IF max_ok /\ delete_ok THEN <<>> ELSE disk_stats
             /\ db_pool' = IF max_ok /\ delete_ok THEN "Some" ELSE "None"
             /\ schedulers' = IF max_ok /\ delete_ok THEN Spawned ELSE NotSpawned
             /\ db_returned' = [call |-> "init_db", ok |-> max_ok /\ delete_ok,
                                added |-> added]
    /\ reset_signal' = FALSE
    /\ reset_pending' = FALSE
    /\ UNCHANGED <<pc, buffer, sys, known_pids, session_read_bytes, session_write_bytes,
                   tick_count, dead_process_history, accumulators, poisoned, stat, emitted,
                   output, top_processes, shutdown_signal, window, process_history,
                   delta_sum_read, delta_sum_write, world, faults, last_flush>>
    /\ UNCHANGED <<pm_vars, db_passed>>

\* A call of insert_stats_batch on the pool of a started application.
InsertBatch ==
    /\ db_pool = "Some"
    /\ \E stats \in Batches, ok \in BOOLEAN :
         /\ Len(disk_stats) + Len(stats) <= MaxRows
         /\ disk_stats' = InsertStatsBatch(disk_stats, stats, ok)
         /\ db_returned' = [call |-> "insert_stats_batch", stats |-> stats, ok |-> ok]
    /\ UNCHANGED <<pc, buffer, sys, known_pids, session_read_bytes, session_write_bytes,
                   tick_count, dead_process_history, accumulators, poisoned, stat, emitted,
                   output, top_processes, reset_signal, shutdown_signal, window,
                   process_history, delta_sum_read, delta_sum_write, world, faults,
                   reset_pending, last_flush>>
    /\ UNCHANGED <<pm_vars, db_passed, app_vars>>

\* Starts of the application, with batches inserted between them.
StartNext ==
    \/ InitDb
    \/ InsertBatch

StartSpec == DbInit /\ [][StartNext]_vars

\* The reset_database command, among starts of the application and
\* inserted batches.
StoreNext ==
    \/ InitDb
    \/ InsertBatch
    \/ ResetDatabase

StoreSpec == DbInit /\ [][StoreNext]_vars

\* The reset_database command, among upserts of per-name deltas.
LedgerNext ==
    \/ UpdateProcessHistory
    \/ ResetDatabase

LedgerSpec == DbInit /\ [][LedgerNext]_vars

\* --------------------------------------------------- scheduled_tasks.rs
\* Where a scheduler's loop goes after a run that failed: nowhere.
StopsOnError(ok) == IF ok THEN "interval" ELSE "stopped"

\* Where a scheduler's loop goes at the end of its body: the match on the
\* result only prints, and the loop comes round to interval.tick().await.
AfterRun(ok) == "interval"

\* What a run printed.
Printed(ok) == IF ok THEN "ok" ELSE "err"

\* The cutoffs of cleanup_old_data, on the scale of the rows' timestamps:
\* now less keep_days, for a clock that is not before 1970 (duration_since
\* returns Ok, as it does in the monitor loop's tick).
Cutoffs == {0, 1}

\* DELETE FROM disk_stats WHERE timestamp < cutoff
DeleteOlder(table, cutoff) == SelectSeq(table, LAMBDA row : ~(row.timestamp < cutoff))

\* interval.tick().await of a scheduler completes.
SchedulerTick(s) ==
    /\ schedulers[s].pc = "interval"
    /\ schedulers' = [schedulers EXCEPT ![s].pc = "run"]
    /\ UNCHANGED <<loop_vars, pm_vars, db_returned, db_passed, alltime_totals, db_pool>>

\* The body of start_cleanup_scheduler's loop up to the VACUUM:
\* cleanup_old_data counts and deletes the rows older than the cutoff; Ok
\* leads on to the VACUUM, an error is printed.
CleanupRun ==
    /\ schedulers["cleanup"].pc = "run"
    /\ \E ok \in BOOLEAN, cutoff \in Cutoffs :
         /\ disk_stats' = IF ok THEN DeleteOlder(disk_stats, cutoff) ELSE disk_stats
         /\ schedulers' = [schedulers EXCEPT
                             !["cleanup"].pc = IF ok THEN "vacuum" ELSE AfterRun(ok),
                             !["cleanup"].last = Printed(ok)]
    /\ UNCHANGED <<pc, buffer, sys, known_pids, session_read_bytes, session_write_bytes,
                   tick_count, dead_process_history, accumulators, poisoned, stat, emitted,
                   output, top_processes, reset_signal, shutdown_signal, window,
                   process_history, delta_sum_read, delta_sum_write, world, faults,
                   reset_pending, last_flush>>
    /\ UNCHANGED <<pm_vars, db_returned, db_passed, alltime_totals, db_pool>>

\* vacuum_database after a cleanup that returned Ok: its result is printed.
CleanupVacuum ==
    /\ schedulers["cleanup"].pc = "vacuum"
    /\ \E ok \in BOOLEAN :
         schedulers' = [schedulers EXCEPT !["cleanup"].pc = AfterRun(ok),
                                          !["cleanup"].vacuum = Printed(ok)]
    /\ UNCHANGED <<loop_vars, pm_vars, db_returned, db_passed, alltime_totals, db_pool>>

\* The body of start_analyze_scheduler's loop: analyze_database, its result
\* printed.
AnalyzeRun ==
    /\ schedulers["analyze"].pc = "run"
    /\ \E ok \in BOOLEAN :
         schedulers' = [schedulers EXCEPT !["analyze"].pc = AfterRun(ok),
                                          !["analyze"].last = Printed(ok)]
    /\ UNCHANGED <<loop_vars, pm_vars, db_returned, db_passed, alltime_totals, db_pool>>

\* The body of start_wal_checkpoint_scheduler's loop: PRAGMA
\* wal_checkpoint(PASSIVE), its result printed.
WalCheckpointRun ==
    /\ schedulers["wal_checkpoint"].pc = "run"
    /\ \E ok \in BOOLEAN :
         schedulers' = [schedulers EXCEPT !["wal_checkpoint"].pc = AfterRun(ok),
                                          !["wal_checkpoint"].last = Printed(ok)]
    /\ UNCHANGED <<loop_vars, pm_vars, db_returned, db_passed, alltime_totals, db_pool>>

\* The schedulers after a start that found rows in no table but disk_stats.
StoredTables == {<<>>} \cup {Rows(b) : b \in Batches}

SchedInit ==
    /\ Init
    /\ world = "lone"
    /\ disk_stats \in StoredTables

SchedNext ==
    \/ \E s \in Schedulers : SchedulerTick(s)
    \/ CleanupRun
    \/ CleanupVacuum
    \/ AnalyzeRun
    \/ WalCheckpointRun

SchedSpec == SchedInit /\ [][SchedNext]_vars

\* The timers fire and the statements return: each interval is a tokio
\* interval, which completes its tick every period, and each statement is a
\* query on the pool.
SchedFairSpec ==
    /\ SchedSpec
    /\ \A s \in Schedulers : WF_vars(SchedulerTick(s))
    /\ WF_vars(CleanupRun)
    /\ WF_vars(CleanupVacuum)
    /\ WF_vars(AnalyzeRun)
    /\ WF_vars(WalCheckpointRun)

\* ------------------------------------------------- the retention policy
\* A constructor that takes keep_days of 0 to mean the default of 30 days.
NewOrDefaultDays(keep_days, sample_interval, archive_enabled) ==
    [keep_days |-> IF keep_days = 0 THEN 30 ELSE keep_days,
     sample_interval |-> sample_interval,
     archive_enabled |-> archive_enabled]

\* RetentionPolicy::new
RetentionPolicyNew(keep_days, sample_interval, archive_enabled) ==
    [keep_days |-> keep_days,
     sample_interval |-> sample_interval,
     archive_enabled |-> archive_enabled]

\* RetentionPolicy::default
RetentionPolicyDefault ==
    [keep_days |-> 30, sample_interval |-> 1, archive_enabled |-> TRUE]

\* #[derive(Clone)]: a new RetentionPolicy, each field cloned.
Clone(policy) ==
    [keep_days |-> policy.keep_days,
     sample_interval |-> policy.sample_interval,
     archive_enabled |-> policy.archive_enabled]

PolicyCalls == {"RetentionPolicy::new", "RetentionPolicy::default", "clone"}

\* A call of RetentionPolicy::new.
NewPolicy ==
    /\ \E k \in 0..MaxPolicyValue, i \in 0..MaxPolicyValue, a \in BOOLEAN :
         db_returned' = [call |-> "RetentionPolicy::new", args |-> <<k, i, a>>,
                         value |-> RetentionPolicyNew(k, i, a)]
    /\ UNCHANGED <<loop_vars, pm_vars, db_passed, app_vars>>

\* A call of RetentionPolicy::default.
DefaultPolicy ==
    /\ db_returned' = [call |-> "RetentionPolicy::default", value |-> RetentionPolicyDefault]
    /\ UNCHANGED <<loop_vars, pm_vars, db_passed, app_vars>>

\* A call of clone on the policy last returned.
ClonePolicy ==
    /\ db_returned.call \in PolicyCalls
    /\ db_returned' = [call |-> "clone", original |-> db_returned.value,
                       value |-> Clone(db_returned.value)]
    /\ UNCHANGED <<loop_vars, pm_vars, db_passed, app_vars>>

PolicyNext ==
    \/ NewPolicy
    \/ DefaultPolicy
    \/ ClonePolicy

PolicySpec == DbInit /\ [][PolicyNext]_vars

\* ------------------------------------------ additions at the top of u64
\* Values at both ends of u64.
EdgeValues == {0, 1, U64Max - 1, U64Max}

\* disk_usage() pairs with values at both ends of u64.
EdgeUsages == {<<0, 0>>, <<1, 0>>, <<U64Max, 0>>, <<0, 1>>, <<0, U64Max>>}

\* sys.processes() with every pid of Pids alive and such counters.
EdgeSnapshots == [Pids -> ProcInfo(EdgeUsages)]

\* The two ways a u64 `+` / `+=` is compiled: with overflow checks (the dev
\* profile), where it panics on overflow, and without (the release profile),
\* where it wraps.
Builds == {"debug", "release"}

\* Whether a `+` of the build panics on addends whose sum is `sum`.
Panics(build, sum) == build = "debug" /\ sum > U64Max

\* session_read_bytes += current_read_speed (and the same for the writes),
\* at a total and a tick delta from both ends of u64.
AddToSessionTotal ==
    /\ \E total \in EdgeValues, speed \in EdgeValues, build \in Builds :
         db_returned' = [call |-> "session_total += tick_delta",
                         args |-> <<total, speed>>,
                         sums |-> <<total + speed>>,
                         panicked |-> Panics(build, total + speed),
                         value |-> <<NextSessionTotal(total, speed)>>]
    /\ UNCHANGED <<loop_vars, pm_vars, db_passed, app_vars>>

\* The loop's current_read_speed += disk_usage.read_bytes (and the same for
\* the writes) over the processes of a snapshot, all of them known.
LoopSumTickDelta ==
    /\ \E snap \in EdgeSnapshots, build \in Builds :
         LET reads == Sum(Pids, [p \in Pids |-> snap[p].read_bytes])
             writes == Sum(Pids, [p \in Pids |-> snap[p].written_bytes])
         IN  db_returned' = [call |-> "current_speed += disk_usage",
                             args |-> snap,
                             sums |-> <<reads, writes>>,
                             panicked |-> Panics(build, reads) \/ Panics(build, writes),
                             value |-> LoopTickDelta(Pids, snap)]
    /\ UNCHANGED <<loop_vars, pm_vars, db_passed, app_vars>>

\* The tick_read_delta / tick_write_delta of ProcessMonitor::update over the
\* processes of a snapshot, each last seen at (0, 0).
PmSumTickDelta ==
    /\ \E snap \in EdgeSnapshots :
         LET last_seen == [p \in Pids |-> <<0, 0>>]
         IN  db_returned' = [call |-> "tick_delta.saturating_add(delta)",
                             args |-> snap,
                             sums |-> <<Sum(Pids, [p \in Pids |-> snap[p].read_bytes]),
                                        Sum(Pids, [p \in Pids |-> snap[p].written_bytes])>>,
                             panicked |-> FALSE,
                             value |-> PmTickDelta(last_seen, snap)]
    /\ UNCHANGED <<loop_vars, pm_vars, db_passed, app_vars>>

\* total_bytes: read_bytes + write_bytes of a ProcessIOStat.
AddTotalBytes ==
    /\ \E n \in Names, r \in EdgeValues, w \in EdgeValues, build \in Builds :
         db_returned' = [call |-> "total_bytes: read_bytes + write_bytes",
                         args |-> <<r, w>>,
                         sums |-> <<r + w>>,
                         panicked |-> Panics(build, r + w),
                         value |-> <<ProcessIOStat(n, r, w).total_bytes>>]
    /\ UNCHANGED <<loop_vars, pm_vars, db_passed, app_vars>>

ArithNext ==
    \/ AddToSessionTotal
    \/ LoopSumTickDelta
    \/ PmSumTickDelta
    \/ AddTotalBytes

ArithSpec == DbInit /\ [][ArithNext]_vars

\* A ProcessMonitor on its own, after construction: among the processes of
\* Pids, and with one process at most.
PmInit == Init /\ world = "busy"
PmLoneInit == Init /\ world = "lone"

\* A ProcessMonitor whose processes have all exited: nothing is running,
\* and the dead-process history holds what the names had accumulated, "a"
\* having been seen before "b".
Ledgers == UNION {[S -> (0..MaxPmBytes) \X (0..MaxPmBytes) \ {<<0, 0>>}] : S \in SUBSET Names}

AllExitedInit ==
    /\ LoopInit
    /\ world = "busy"
    /\ pm_sys = NoProcesses
    /\ pm_dead_process_history \in Ledgers
    /\ pm_last_process_snapshot = NoProcesses
    /\ pm_accumulators = NoProcesses
    /\ pm_last_seen_by_pid = NoProcesses
    /\ pm_returned = [call |-> "update", value |-> <<0, 0>>]
    /\ pm_reported = NoProcesses

\* get_top_processes and reset, called on such a ProcessMonitor.
ReportNext ==
    \/ PmGetTopProcesses
    \/ PmReset

ReportSpec == AllExitedInit /\ [][ReportNext]_vars

PmNext ==
    \/ PmUpdate
    \/ PmReset
    \/ PmGetTopProcesses

PMSpec == PmInit /\ [][PmNext]_vars

PmDbNext ==
    \/ PmUpdate
    \/ PmReset
    \/ PmGetDeltasForDb

PMDbSpec == PmLoneInit /\ [][PmDbNext]_vars

\* The flush of the per-name deltas: get_deltas_for_db is called, and what
\* it returned is passed to update_process_history, whose transaction
\* commits the upsert of every name or, after an error, none.
PersistDeltas ==
    LET totals == CurrentTotals(pm_dead_process_history, pm_accumulators)
        deltas == Deltas(totals, pm_last_process_snapshot)
    IN  /\ pm_returned' = [call |-> "get_deltas_for_db", value |-> deltas]
        /\ pm_reported' = AddEntries(pm_reported, deltas)
        /\ pm_last_process_snapshot' = SnapshotAfter(totals, pm_last_process_snapshot)
        /\ StoredTotal(MergeAdd(process_history, deltas)) <= MaxDbBytes
        /\ \E ok \in BOOLEAN :
             /\ process_history' = IF ok THEN MergeAdd(process_history, deltas)
                                    ELSE process_history
             /\ db_passed' = IF ok THEN AddEntries(db_passed, deltas) ELSE db_passed
             /\ db_returned' = [call |-> "update_process_history",
                                stats |-> deltas, ok |-> ok]
        /\ UNCHANGED <<pm_sys, pm_dead_process_history, pm_accumulators, pm_last_seen_by_pid>>
        /\ UNCHANGED <<pc, buffer, sys, known_pids, session_read_bytes, session_write_bytes,
                       tick_count, dead_process_history, accumulators, poisoned, stat,
                       emitted, output, top_processes, reset_signal, shutdown_signal,
                       window, disk_stats, delta_sum_read, delta_sum_write, world, faults,
                       reset_pending, last_flush>>
        /\ UNCHANGED app_vars

\* One session of a ProcessMonitor that is flushed now and then.
PmFlushNext ==
    \/ PmUpdate
    \/ PersistDeltas

PMFlushSpec == PmLoneInit /\ [][PmFlushNext]_vars

\* ================================================================ claims
\* A step of the loop that is a tick (the part of a pass after the reset
\* check), and one whose pass found the reset flag set and did the clearing.
TickStep == tick_count' = tick_count + 1
ResetTickStep == TickStep /\ pc = "reset_store"

\* A step of the ProcessMonitor that is a call of update.
PmUpdateStep == pm_returned'.call = "update"

\* The accumulated bytes of pid p in the map acc (zero without an entry).
ReadOf(acc, p) == IF p \in DOMAIN acc THEN acc[p].read_bytes ELSE 0
WriteOf(acc, p) == IF p \in DOMAIN acc THEN acc[p].write_bytes ELSE 0

\* The entry of name n in a name -> (read, write) map (zero without one).
EntryOf(hist, n) == IF n \in DOMAIN hist THEN hist[n] ELSE <<0, 0>>

\* The accumulated bytes of the pids in ps, added up.
ReadSum(acc, ps) == Sum(ps, [p \in ps |-> acc[p].read_bytes])
WriteSum(acc, ps) == Sum(ps, [p \in ps |-> acc[p].write_bytes])

\* ---------------------------------------------------------------- C1
\* C1: on every tick the session read total carried by the DiskStat of that
\* tick is the sum of the read deltas of the ticks since the last reset (since
\* the start without one), and likewise for writes.
C1_SessionTotalIsSumOfTickDeltas ==
    /\ [][TickStep =>
            /\ stat'.read_bytes = delta_sum_read'
            /\ stat'.write_bytes = delta_sum_write']_vars
    /\ [](/\ session_read_bytes = delta_sum_read
          /\ session_write_bytes = delta_sum_write)

\* Two ticks with a read delta each have been added up.
C1_Witness ==
    /\ tick_count = 3
    /\ stat.read_speed = 1
    /\ stat.read_bytes = 2

\* ---------------------------------------------------------------- C2
\* C2: a pid that has no baseline when it is observed contributes (0, 0) to
\* the tick delta and to its accumulator on that tick; observed again on the
\* next tick with counters (Cr, Cw) not below the (Vr, Vw) of the first
\* observation, it contributes exactly (Cr - Vr, Cw - Vw).  Every pid the
\* first tick of a run observed is first observed on that tick, so the
\* second tick of the run is the "next tick" of each of them.  (Ticks in
\* which nothing fails.)
C2_FirstSeenThenDifference ==
    [][TickStep /\ faults' = faults =>
         LET baseline == known_pids
         IN  /\ \A p \in DOMAIN sys' \ baseline :
                  /\ accumulators'[p].read_bytes = ReadOf(accumulators, p)
                  /\ accumulators'[p].write_bytes = WriteOf(accumulators, p)
             /\ DOMAIN sys' \cap baseline = {} =>
                  stat'.read_speed = 0 /\ stat'.write_speed = 0
             /\ tick_count = 1 /\ pc = "top" =>
                  \A p \in DOMAIN sys' \cap DOMAIN sys :
                      /\ sys'[p].read_bytes >= sys[p].read_bytes
                      /\ sys'[p].written_bytes >= sys[p].written_bytes
                      => /\ accumulators'[p].read_bytes - ReadOf(accumulators, p)
                              = sys'[p].read_bytes - sys[p].read_bytes
                         /\ accumulators'[p].write_bytes - WriteOf(accumulators, p)
                              = sys'[p].written_bytes - sys[p].written_bytes]_vars

\* The same statement for ProcessMonitor::update, whose baseline is
\* last_seen_by_pid: every pid with a baseline contributes the difference.
PmFirstSeenThenDifference ==
    [][PmUpdateStep =>
         /\ \A p \in DOMAIN pm_sys' \ DOMAIN pm_last_seen_by_pid :
              /\ pm_accumulators'[p].read_bytes = ReadOf(pm_accumulators, p)
              /\ pm_accumulators'[p].write_bytes = WriteOf(pm_accumulators, p)
         /\ \A p \in DOMAIN pm_sys' \cap DOMAIN pm_last_seen_by_pid :
              /\ pm_sys'[p].read_bytes >= pm_last_seen_by_pid[p][1]
              /\ pm_sys'[p].written_bytes >= pm_last_seen_by_pid[p][2]
              => /\ pm_accumulators'[p].read_bytes - ReadOf(pm_accumulators, p)
                      = pm_sys'[p].read_bytes - pm_last_seen_by_pid[p][1]
                 /\ pm_accumulators'[p].write_bytes - WriteOf(pm_accumulators, p)
                      = pm_sys'[p].written_bytes - pm_last_seen_by_pid[p][2]]_vars

\* ---------------------------------------------------------------- C3
\* The pids of the snapshot that have a baseline and whose counter did not
\* fall below it.
NotBelowRead(last_seen, snap) ==
    {p \in DOMAIN snap \cap DOMAIN last_seen : snap[p].read_bytes >= last_seen[p][1]}
NotBelowWrite(last_seen, snap) ==
    {p \in DOMAIN snap \cap DOMAIN last_seen : snap[p].written_bytes >= last_seen[p][2]}

\* C3: when a pid's counter is lower than its baseline, the pid's delta in
\* that direction is 0 for the tick: its accumulator does not move in that
\* direction and the tick total is the sum of the differences of the other
\* pids, never a wrapped-around value.
C3_CounterBelowBaselineCountsZero ==
    [][PmUpdateStep =>
         LET last_seen == pm_last_seen_by_pid
             up_r == NotBelowRead(last_seen, pm_sys')
             up_w == NotBelowWrite(last_seen, pm_sys')
         IN  /\ \A p \in DOMAIN pm_sys' \cap DOMAIN last_seen :
                  /\ pm_sys'[p].read_bytes < last_seen[p][1] =>
                       pm_accumulators'[p].read_bytes = ReadOf(pm_accumulators, p)
                  /\ pm_sys'[p].written_bytes < last_seen[p][2] =>
                       pm_accumulators'[p].write_bytes = WriteOf(pm_accumulators, p)
             /\ pm_returned'.value[1] =
                  Sum(up_r, [p \in up_r |-> pm_sys'[p].read_bytes - last_seen[p][1]])
             /\ pm_returned'.value[2] =
                  Sum(up_w, [p \in up_w |-> pm_sys'[p].written_bytes - last_seen[p][2]])]_vars

\* An update has returned (0, 0) for a pid whose read counter stands at 0
\* with 2 bytes accumulated: the counter went 0, 2, 0 and the fall counted 0.
C3_Witness ==
    /\ pm_returned = [call |-> "update", value |-> <<0, 0>>]
    /\ \E p \in DOMAIN pm_accumulators :
         /\ pm_accumulators[p].read_bytes = 2
         /\ pm_sys[p].read_bytes = 0
         /\ pm_last_seen_by_pid[p] = <<0, 0>>

\* ---------------------------------------------------------------- C4
\* The pids whose accumulator carries name n.
PidsNamed(acc, n) == {p \in DOMAIN acc : acc[p].name = n}

\* C4: when a pid with accumulated bytes (r, w) under a name disappears, the
\* dead-process ledger entry of the name grows by exactly (r, w); a pid that
\* appears under the same name starts from zero; and the grouped total of a
\* name is its ledger entry plus the accumulated bytes of its live pids.
C4_DeadPidFoldsIntoLedger ==
    /\ [][PmUpdateStep =>
            /\ \A n \in Names :
                 LET gone == PidsNamed(pm_accumulators, n) \ DOMAIN pm_sys'
                 IN  /\ EntryOf(pm_dead_process_history', n)[1] =
                            EntryOf(pm_dead_process_history, n)[1]
                                + ReadSum(pm_accumulators, gone)
                     /\ EntryOf(pm_dead_process_history', n)[2] =
                            EntryOf(pm_dead_process_history, n)[2]
                                + WriteSum(pm_accumulators, gone)
            /\ \A p \in DOMAIN pm_sys' \ DOMAIN pm_accumulators :
                 pm_accumulators'[p] = NewAccumulator(pm_sys'[p].name)]_vars
    /\ [](\A n \in Names :
            LET live == PidsNamed(pm_accumulators, n)
                grouped == GroupByName(pm_dead_process_history, pm_accumulators, pm_sys)
            IN  /\ EntryOf(grouped, n)[1] =
                       EntryOf(pm_dead_process_history, n)[1] + ReadSum(pm_accumulators, live)
                /\ EntryOf(grouped, n)[2] =
                       EntryOf(pm_dead_process_history, n)[2] + WriteSum(pm_accumulators, live))

\* Pid 1 ran as "a", accumulated (1, 0) and is gone; pid 2 runs as "a" and
\* has accumulated (1, 0) of its own.
C4_Witness ==
    /\ 1 \notin DOMAIN pm_accumulators
    /\ "a" \in DOMAIN pm_dead_process_history
    /\ pm_dead_process_history["a"] = <<1, 0>>
    /\ 2 \in DOMAIN pm_accumulators
    /\ pm_accumulators[2] = [name |-> "a", read_bytes |-> 1, write_bytes |-> 0]

\* The same fold in the loop of monitor.rs, on a tick in which nothing fails.
LoopDeadPidFoldsIntoLedger ==
    [][TickStep /\ faults' = faults =>
         \A n \in Names :
             LET gone == PidsNamed(accumulators, n) \ DOMAIN sys'
             IN  /\ EntryOf(dead_process_history', n)[1] =
                        EntryOf(dead_process_history, n)[1] + ReadSum(accumulators, gone)
                 /\ EntryOf(dead_process_history', n)[2] =
                        EntryOf(dead_process_history, n)[2] + WriteSum(accumulators, gone)]_vars

\* ---------------------------------------------------------------- C5
\* Read and write bytes over the entries of a list, and over a grouped map.
ListRead(list) == Sum(1..Len(list), [i \in 1..Len(list) |-> list[i].read_bytes])
ListWrite(list) == Sum(1..Len(list), [i \in 1..Len(list) |-> list[i].write_bytes])
GroupedRead(grouped) == Sum(DOMAIN grouped, [n \in DOMAIN grouped |-> grouped[n][1]])
GroupedWrite(grouped) == Sum(DOMAIN grouped, [n \in DOMAIN grouped |-> grouped[n][2]])

\* C5: when there are more name groups than the list limit, the read bytes of
\* the entries of the emitted top-processes list ("Others" included) add up
\* to the read bytes of all groups, and likewise the write bytes.
C5_KeptPlusOthersIsGrandTotal ==
    top_processes # <<>> =>
        LET grouped == GroupByName(dead_process_history, accumulators, sys)
        IN  Cardinality(DOMAIN grouped) > TopLimit =>
                /\ ListRead(top_processes[1]) = GroupedRead(grouped)
                /\ ListWrite(top_processes[1]) = GroupedWrite(grouped)

\* The same statement for the list ProcessMonitor::get_top_processes returns.
PmKeptPlusOthersIsGrandTotal ==
    pm_returned.call = "get_top_processes" =>
        LET grouped == GroupByName(pm_dead_process_history, pm_accumulators, pm_sys)
        IN  Cardinality(DOMAIN grouped) > TopLimit =>
                /\ ListRead(pm_returned.value) = GroupedRead(grouped)
                /\ ListWrite(pm_returned.value) = GroupedWrite(grouped)

\* ---------------------------------------------------------------- C6
\* C6: on the tick that observes a reset request everything is cleared
\* before any sampling (session totals, baseline, every accumulator, the
\* dead-process ledger, the pending buffer) and the request is cleared, so
\* that after the tick every pid is newly baselined with nothing accumulated,
\* the DiskStat and the totals are zero, the buffer holds that DiskStat only,
\* and the top-processes report of the tick shows no byte.  (Ticks in
\* which nothing fails.)
C6_ResetTickClearsEverything ==
    [][ResetTickStep /\ faults' = faults =>
         /\ ~reset_signal'
         /\ session_read_bytes' = 0 /\ session_write_bytes' = 0
         /\ stat'.read_speed = 0 /\ stat'.write_speed = 0
         /\ known_pids' = DOMAIN sys'
         /\ DOMAIN accumulators' = DOMAIN sys'
         /\ \A p \in DOMAIN accumulators' : ~NonZero(accumulators'[p])
         /\ dead_process_history' = NoProcesses
         /\ buffer' = <<stat'>>
         /\ top_processes' \in {<<>>, << <<>> >>}]_vars

\* ---------------------------------------------------------------- C7
\* The in-memory state of the monitor.
InMemory ==
    <<buffer, known_pids, session_read_bytes, session_write_bytes,
      dead_process_history, accumulators, reset_signal>>

\* C7: a second reset request with no tick in between changes nothing the
\* next tick starts from; the reset zeroes all in-memory state; and the
\* first tick after it reports delta (0, 0) and session totals (0, 0).
C7_ResetIdempotentAndZeroing ==
    /\ [][ResetDatabase /\ reset_signal => UNCHANGED InMemory]_vars
    /\ [][ResetTickStep /\ faults' = faults =>
            /\ stat'.read_speed = 0 /\ stat'.write_speed = 0
            /\ stat'.read_bytes = 0 /\ stat'.write_bytes = 0
            /\ ReadSum(accumulators', DOMAIN accumulators') = 0
            /\ WriteSum(accumulators', DOMAIN accumulators') = 0
            /\ GroupedRead(dead_process_history') = 0
            /\ GroupedWrite(dead_process_history') = 0]_vars

\* ---------------------------------------------------------------- C8
\* C8: while fewer DiskStats than the flush threshold are pending no flush
\* is triggered; the DiskStat that brings the buffer to the threshold
\* triggers one flush that hands exactly the buffered DiskStats, in tick
\* order, to insert_stats_batch and leaves the buffer empty; the DiskStat of
\* the next tick is appended to the empty buffer.
C8_FlushAtThreshold ==
    /\ [](pc = "flush" => Len(buffer) = FlushThreshold)
    /\ [](pc # "flush" => Len(buffer) < FlushThreshold)
    /\ [](\A i \in 1..Len(buffer) :
              buffer[i].timestamp = tick_count - Len(buffer) + i)
    /\ [][TickStep =>
            /\ disk_stats' = disk_stats
            /\ buffer' = Append(buffer, stat')]_vars
    /\ [][pc = "flush" /\ pc' = "sleep" =>
            /\ disk_stats' \in {disk_stats \o Rows(buffer), disk_stats}
            /\ buffer' = <<>>]_vars

\* The first FlushThreshold DiskStats are stored, in tick order, and the
\* DiskStat of the tick after them is alone in the buffer.
C8_Witness ==
    /\ Len(disk_stats) = FlushThreshold
    /\ \A i \in 1..FlushThreshold : disk_stats[i].timestamp = i
    /\ Len(buffer) = 1
    /\ buffer[1].timestamp = FlushThreshold + 1

\* ---------------------------------------------------------------- C9
\* C9: on a tick that observes the shutdown request the loop writes the
\* DiskStats still pending to disk_stats (unless the insert fails) and adds
\* to process_history what each name has accumulated and not yet had
\* persisted, then stops; no DiskStat is produced afterwards.
C9_ShutdownPersistsSamplesAndDeltas ==
    /\ [][pc = "top" /\ pc' = "stopped" =>
            /\ disk_stats' \in {disk_stats \o Rows(buffer), disk_stats}
            /\ \A n \in Names :
                 LET live == PidsNamed(accumulators, n)
                 IN  /\ EntryOf(process_history', n)[1] =
                            EntryOf(process_history, n)[1]
                                + EntryOf(dead_process_history, n)[1]
                                + ReadSum(accumulators, live)
                     /\ EntryOf(process_history', n)[2] =
                            EntryOf(process_history, n)[2]
                                + EntryOf(dead_process_history, n)[2]
                                + WriteSum(accumulators, live)]_vars
    /\ [][pc = "stopped" => pc' = "stopped" /\ ~TickStep]_vars

\* ---------------------------------------------------------------- C10
\* C10: when insert_stats_batch fails at a flush, the DiskStats it was
\* handed stay in the pending buffer.
C10_FailedFlushKeepsBuffer ==
    [][pc = "flush" /\ pc' = "sleep" /\ faults' = faults + 1 =>
         buffer' = buffer]_vars

\* ---------------------------------------------------------------- C11
\* C11: between resets, whenever get_deltas_for_db has returned, the deltas
\* its calls have returned for a name add up to the grouped total of the name
\* (its dead-process history entry plus the accumulators that carry the
\* name): every byte is reported once.
C11_DeltasAddUpToGroupedTotal ==
    pm_returned.call = "get_deltas_for_db" =>
        \A n \in Names :
            EntryOf(pm_reported, n) =
                EntryOf(CurrentTotals(pm_dead_process_history, pm_accumulators), n)

\* ---------------------------------------------------------------- C12
\* C12: what process_history stores for a name is the sum of the deltas the
\* successful calls of update_process_history were passed for it (nothing
\* stored for a name no call was passed), and a successful call leaves the
\* names that are not in its `stats` as they were.
C12_AdditiveMerge ==
    /\ [](/\ DOMAIN process_history = DOMAIN db_passed
          /\ \A n \in DOMAIN process_history : process_history[n] = db_passed[n])
    /\ [][db_returned'.call = "update_process_history" /\ db_returned'.ok =>
            \A n \in Names \ DOMAIN db_returned'.stats :
                /\ n \in DOMAIN process_history' <=> n \in DOMAIN process_history
                /\ EntryOf(process_history', n) = EntryOf(process_history, n)]_vars

\* Two successful calls were passed (1, 0) for "a", the second of them for
\* "a" alone, while "b" had (1, 0) stored.
C12_Witness ==
    /\ db_returned = [call |-> "update_process_history",
                      stats |-> [n \in {"a"} |-> <<1, 0>>], ok |-> TRUE]
    /\ process_history = [n \in {"a", "b"} |-> IF n = "a" THEN <<2, 0>> ELSE <<1, 0>>]

\* ---------------------------------------------------------------- C13
\* C13: once reset_database has returned, disk_stats holds no DiskStat
\* produced before the command was called.  The command empties disk_stats
\* and stores the reset flag, and every DiskStat is produced by a tick, which
\* clears the flag: while the flag is up, whatever disk_stats holds was
\* produced before the command, so disk_stats is empty.
C13_NoFlushOfPreResetSamples ==
    reset_signal => disk_stats = <<>>

\* ---------------------------------------------------------------- C14
\* C14: the loop is stopped only with the shutdown flag set; a pass in which
\* the external metrics, the accumulator lock or an emission fails still
\* ends in the flush or the sleep that precedes the next pass, a flush
\* whose insert fails ends in that sleep, and only the final insert, under
\* the shutdown flag, is followed by the stop.
C14_OnlyShutdownStopsTheLoop ==
    /\ [](pc = "stopped" => shutdown_signal)
    /\ [][pc' = "stopped" /\ pc # "stopped" => pc = "top" /\ shutdown_signal]_vars
    /\ [][faults' > faults /\ pc \in {"top", "reset_store"} /\ pc' # pc =>
            \/ TickStep /\ pc' \in {"flush", "sleep"}
            \/ shutdown_signal /\ pc' = "stopped"]_vars
    /\ [][faults' > faults /\ pc = "flush" /\ pc' # "flush" => pc' = "sleep"]_vars

\* A flush has failed and the loop went on to a further tick.
C14_Witness ==
    /\ faults > 0
    /\ pc = "sleep"
    /\ Len(buffer) = 1
    /\ disk_stats = <<>>
    /\ buffer[1].timestamp = FlushThreshold + 1

\* ---------------------------------------------------------------- C15
\* C15: no reset request is lost.  No tick runs while a request that the
\* loop has not answered with a clearing is outstanding (reset_pending is
\* set by the command's store of the flag and cleared by the loop's
\* clearing), and the clearing leaves nothing accumulated in memory.
C15_NoResetRequestIsLost ==
    /\ [][TickStep => ~reset_pending]_vars
    /\ [][pc = "top" /\ pc' = "reset_store" =>
            /\ session_read_bytes' = 0 /\ session_write_bytes' = 0
            /\ known_pids' = {} /\ buffer' = <<>>
            /\ dead_process_history' = NoProcesses
            /\ \A p \in DOMAIN accumulators' : ~NonZero(accumulators'[p])]_vars

\* ---------------------------------------------------------------- C16
\* C16: a loop that is in its sleep between two passes when the shutdown
\* has been requested does not sleep the period out: the shutdown branch
\* can be taken from the sleep at once.
C16_SleepingLoopWakesOnShutdown ==
    pc = "sleep" /\ shutdown_signal /\ Running => ENABLED ShutdownExit

\* ---------------------------------------------------------------- C17
\* C17: the window's close handler does not return, and the process does
\* not end, before the loop has done its final insert and stopped.
C17_CloseWaitsForTheDrain ==
    window = "closed" => pc = "stopped"

\* ---------------------------------------------------------------- C18
\* The pids that run under name n and have an accumulator, and what the name
\* has in all: its dead-process history entry plus what those pids hold.
LiveNamed(acc, snap, n) == {p \in DOMAIN snap \cap DOMAIN acc : snap[p].name = n}
NameTotal(hist, acc, snap, n) ==
    <<EntryOf(hist, n)[1] + ReadSum(acc, LiveNamed(acc, snap, n)),
      EntryOf(hist, n)[2] + WriteSum(acc, LiveNamed(acc, snap, n))>>

\* The names that have a byte to show.
NamesWithBytes(hist, acc, snap) ==
    {n \in Names : NameTotal(hist, acc, snap, n) # <<0, 0>>}

\* Every entry of the list, "Others" aside, carries what its name has in
\* all, no name has two entries, and unless the names with bytes outnumber
\* the limit each of them has an entry.
ReportsNameTotals(list, hist, acc, snap) ==
    /\ \A i \in 1..Len(list) :
          list[i].name # "Others" =>
              /\ <<list[i].read_bytes, list[i].write_bytes>> =
                     NameTotal(hist, acc, snap, list[i].name)
              /\ \A j \in 1..Len(list) : list[j].name = list[i].name => j = i
    /\ Cardinality(NamesWithBytes(hist, acc, snap)) <= TopLimit =>
          \A n \in NamesWithBytes(hist, acc, snap) :
              \E i \in 1..Len(list) : list[i].name = n

\* C18: the top-processes list a tick emits has, for each name, the name's
\* dead-process history entry plus the accumulators of the pids running
\* under the name; and when pids exit, what they had accumulated goes to the
\* history entry of the name they were reported under, so that the name
\* keeps its bytes in the lists that follow.  (Ticks in which nothing fails.)
C18_ReportIsLedgerPlusLiveByName ==
    [][TickStep /\ faults' = faults =>
         /\ top_processes' # <<>> =>
                ReportsNameTotals(top_processes'[1], dead_process_history',
                                  accumulators', sys')
         /\ \A n \in Names :
                LET gone == LiveNamed(accumulators, sys, n) \ DOMAIN sys'
                IN  /\ EntryOf(dead_process_history', n)[1] =
                           EntryOf(dead_process_history, n)[1] + ReadSum(accumulators, gone)
                    /\ EntryOf(dead_process_history', n)[2] =
                           EntryOf(dead_process_history, n)[2] + WriteSum(accumulators, gone)]_vars

\* The same for ProcessMonitor, whose update keeps the accumulator's name
\* that of the process: the list of get_top_processes.
PmReportIsLedgerPlusLiveByName ==
    /\ [](pm_returned.call = "get_top_processes" =>
              ReportsNameTotals(pm_returned.value, pm_dead_process_history,
                                pm_accumulators, pm_sys))
    /\ [][PmUpdateStep =>
            \A n \in Names :
                LET gone == LiveNamed(pm_accumulators, pm_sys, n) \ DOMAIN pm_sys'
                IN  /\ EntryOf(pm_dead_process_history', n)[1] =
                           EntryOf(pm_dead_process_history, n)[1]
                               + ReadSum(pm_accumulators, gone)
                    /\ EntryOf(pm_dead_process_history', n)[2] =
                           EntryOf(pm_dead_process_history, n)[2]
                               + WriteSum(pm_accumulators, gone)]_vars

\* ---------------------------------------------------------------- C19
\* The entries of a list but a trailing "Others".
Kept(list) ==
    IF list # <<>> /\ list[Len(list)].name = "Others"
    THEN SubSeq(list, 1, Len(list) - 1) ELSE list

\* The names of the groups that have no entry in the list.
LeftOut(list, grouped) == DOMAIN grouped \ {list[i].name : i \in 1..Len(list)}

\* total_bytes does not increase along the kept entries, and no group that
\* was cut off has more than a kept entry.
OrderedByTotal(list, grouped) ==
    /\ \A i, j \in 1..Len(Kept(list)) :
          i < j => list[i].total_bytes >= list[j].total_bytes
    /\ \A i \in 1..Len(Kept(list)) : \A n \in LeftOut(list, grouped) :
          list[i].total_bytes >= grouped[n][1] + grouped[n][2]

\* "a" was seen before "b".
FirstSeenRank(n) == IF n = "a" THEN 1 ELSE 2

\* Among equal totals the name seen first comes first, in the list and at
\* the cut.
TiesInFirstSeenOrder(list, grouped) ==
    /\ \A i, j \in 1..Len(Kept(list)) :
          i < j /\ list[i].total_bytes = list[j].total_bytes =>
              FirstSeenRank(list[i].name) < FirstSeenRank(list[j].name)
    /\ \A i \in 1..Len(Kept(list)) : \A n \in LeftOut(list, grouped) :
          list[i].total_bytes = grouped[n][1] + grouped[n][2] =>
              FirstSeenRank(list[i].name) < FirstSeenRank(n)

LoopReportOrderedByTotal ==
    [][TickStep /\ faults' = faults /\ top_processes' # <<>> =>
         OrderedByTotal(top_processes'[1],
                        GroupByName(dead_process_history', accumulators', sys'))]_vars

\* ---------------------------------------------------------------- C20
\* C20: every tick builds one DiskStat and appends it, and nothing else, to
\* the pending buffer; the "disk-metrics" event of the tick, if the emit does
\* not fail, carries that same DiskStat, and if it fails the DiskStat is
\* appended all the same; no other step appends to the buffer or emits.
C20_OneSampleEmittedAndBuffered ==
    /\ [][TickStep =>
            /\ buffer' = Append(buffer, stat')
            /\ emitted' = <<>> \/ emitted' = <<buffer'[Len(buffer')]>>]_vars
    /\ [][~TickStep =>
            /\ buffer' = buffer \/ buffer' = <<>>
            /\ emitted' = emitted \/ emitted' = <<>>]_vars

\* The emit of the second tick failed; its DiskStat is the last of the buffer.
C20_Witness ==
    /\ tick_count = 2
    /\ emitted = <<>>
    /\ Len(buffer) = 2
    /\ buffer[2] = stat
    /\ stat.timestamp = 2

\* ---------------------------------------------------------------- C21
\* C21: on a tick whose external metrics read fails (PowerShell could not be
\* run, exited with a failure or printed nothing that parses), the idle/queue
\* pair of the DiskStat is the default (100, 0); and the idle value of every
\* DiskStat is within 0..100, its queue depth not below 0.
C21_FailedMetricsReadGivesDefault ==
    /\ [][TickStep /\ ~output'.usable =>
            <<stat'.idle_time, stat'.queue_depth>> = DefaultMetrics]_vars
    /\ [](/\ 0 <= stat.idle_time /\ stat.idle_time <= 100
          /\ stat.queue_depth >= 0)

\* ---------------------------------------------------------------- C22
\* C22: RetentionPolicy::new(k, s, a) returns a policy whose keep_days,
\* sample_interval and archive_enabled are k, s and a, for k = 0 as for any
\* other k; RetentionPolicy::default() is (30, 1, true); and a clone has the
\* fields of its original.
C22_PolicyFieldsAreTheArguments ==
    /\ db_returned.call = "RetentionPolicy::new" =>
          /\ db_returned.value.keep_days = db_returned.args[1]
          /\ db_returned.value.sample_interval = db_returned.args[2]
          /\ db_returned.value.archive_enabled = db_returned.args[3]
    /\ db_returned.call = "RetentionPolicy::default" =>
          /\ db_returned.value.keep_days = 30
          /\ db_returned.value.sample_interval = 1
          /\ db_returned.value.archive_enabled = TRUE
    /\ db_returned.call = "clone" =>
          /\ db_returned.value.keep_days = db_returned.original.keep_days
          /\ db_returned.value.sample_interval = db_returned.original.sample_interval
          /\ db_returned.value.archive_enabled = db_returned.original.archive_enabled

\* The clone of a policy built with keep_days 0 keeps no day either.
C22_Witness ==
    /\ db_returned.call = "clone"
    /\ db_returned.original = RetentionPolicyNew(0, 5, FALSE)
    /\ db_returned.value.keep_days = 0

\* ---------------------------------------------------------------- C23
\* C23: the checkpoint of a name (its entry of last_process_snapshot) is
\* advanced to the name's total only after the name's delta has been
\* upserted into process_history: a flush whose upsert fails leaves the
\* checkpoint as it was, so that the delta is part of the next flush, and
\* the checkpoint never runs ahead of what is stored; no delta is lost.
C23_CheckpointAdvancesAfterTheUpsert ==
    /\ [][/\ pm_returned'.call = "get_deltas_for_db"
           /\ db_returned'.call = "update_process_history"
           /\ ~db_returned'.ok
           => pm_last_process_snapshot' = pm_last_process_snapshot]_vars
    /\ [](\A n \in Names :
            /\ EntryOf(pm_last_process_snapshot, n)[1] <= EntryOf(process_history, n)[1]
            /\ EntryOf(pm_last_process_snapshot, n)[2] <= EntryOf(process_history, n)[2])

\* ---------------------------------------------------------------- C24
\* The loop is about to run the part of a pass that holds the delta pass.
AtDeltaPass ==
    /\ Running
    /\ \/ pc = "top" /\ ~shutdown_signal /\ ~reset_signal
       \/ pc = "reset_store"
    /\ tick_count < MaxTicks

HeldRead(hist, acc) == ReadSum(acc, DOMAIN acc) + GroupedRead(hist)
HeldWrite(hist, acc) == WriteSum(acc, DOMAIN acc) + GroupedWrite(hist)

\* C25: after every tick the read bytes of the accumulators plus those of
\* the dead-process history are the session read total since the last reset,
\* and likewise for writes; a tick adds its delta to what is held and
\* nothing else, so that the fold of a dead pid creates no byte and
\* destroys none.
C25_HeldBytesAreTheSessionTotal ==
    /\ [](pc \in {"flush", "sleep"} =>
            /\ HeldRead(dead_process_history, accumulators) = session_read_bytes
            /\ HeldWrite(dead_process_history, accumulators) = session_write_bytes)
    /\ [][TickStep /\ pc = "top" =>
            /\ HeldRead(dead_process_history', accumulators')
                  = HeldRead(dead_process_history, accumulators) + stat'.read_speed
            /\ HeldWrite(dead_process_history', accumulators')
                  = HeldWrite(dead_process_history, accumulators) + stat'.write_speed]_vars

\* The same for ProcessMonitor::update, whose return value is the tick's
\* delta.
PmUpdateAddsItsDelta ==
    [][PmUpdateStep =>
         /\ HeldRead(pm_dead_process_history', pm_accumulators')
               = HeldRead(pm_dead_process_history, pm_accumulators) + pm_returned'.value[1]
         /\ HeldWrite(pm_dead_process_history', pm_accumulators')
               = HeldWrite(pm_dead_process_history, pm_accumulators) + pm_returned'.value[2]]_vars

\* ---------------------------------------------------------------- C26
\* C26: after every delta pass that took the lock, the pids the loop knows
\* and the pids that have an accumulator are the pids of the snapshot the
\* pass went through: no entry of a pid that is gone outlives the pass.
C26_MapsHoldTheSnapshotPids ==
    [][TickStep /\ ~poisoned' =>
         /\ known_pids' = DOMAIN sys'
         /\ DOMAIN accumulators' = DOMAIN sys']_vars

\* Pid 1 ran, accumulated bytes and is gone; pid 2 runs, and is the one pid
\* known and the one with an accumulator.
C26_Witness ==
    /\ tick_count = 3
    /\ ~poisoned
    /\ dead_process_history # NoProcesses
    /\ DOMAIN sys = {2}
    /\ known_pids = {2}
    /\ DOMAIN accumulators = {2}

\* The same for ProcessMonitor::update, whose baseline is last_seen_by_pid.
PmMapsHoldTheSnapshotPids ==
    [][PmUpdateStep =>
         /\ DOMAIN pm_last_seen_by_pid' = DOMAIN pm_sys'
         /\ DOMAIN pm_accumulators' = DOMAIN pm_sys']_vars

\* ---------------------------------------------------------------- C27
\* C27: the dead-process history never holds an entry whose read and write
\* bytes are both zero; an update in which the pids that are gone had all
\* accumulated (0, 0) removes them and leaves the history as it was.
C27_NoZeroEntryInTheLedger ==
    /\ [](\A n \in DOMAIN pm_dead_process_history :
            pm_dead_process_history[n] # <<0, 0>>)
    /\ [][PmUpdateStep =>
            LET gone == DOMAIN pm_accumulators \ DOMAIN pm_sys'
            IN  /\ gone \cap DOMAIN pm_accumulators' = {}
                /\ (\A p \in gone : ~NonZero(pm_accumulators[p])) =>
                       pm_dead_process_history' = pm_dead_process_history]_vars

\* A process named "a" had accumulated (0, 0) when get_deltas_for_db last
\* looked (its name has a checkpoint), and is gone: no accumulator is left,
\* and the history has no entry.
C27_Witness ==
    /\ pm_returned.call = "update"
    /\ DOMAIN pm_last_process_snapshot = {"a"}
    /\ pm_accumulators = NoProcesses
    /\ pm_dead_process_history = NoProcesses

\* The same for the history of the loop.
LoopNoZeroEntryInTheLedger ==
    \A n \in DOMAIN dead_process_history : dead_process_history[n] # <<0, 0>>

\* ---------------------------------------------------------------- C28
\* C28: between resets the grouped total of a name (its dead-process
\* history entry plus the accumulators that carry the name) does not
\* decrease from one update to the next, whatever the processes do,
\* a change of name and the reuse of a pid under another name included.
C28_GroupedTotalNeverDecreases ==
    [][PmUpdateStep =>
         \A n \in Names :
             LET before == EntryOf(CurrentTotals(pm_dead_process_history,
                                                 pm_accumulators), n)
                 after == EntryOf(CurrentTotals(pm_dead_process_history',
                                                pm_accumulators'), n)
             IN  after[1] >= before[1] /\ after[2] >= before[2]]_vars

\* ---------------------------------------------------------------- C29
\* C29: a tick performs a flush whenever, with its DiskStat pushed, the
\* buffer has reached the count threshold or the time since the last flush
\* (since the start, before the first) has reached the duration threshold;
\* so a flush happens once that time has passed with fewer DiskStats than
\* the count threshold buffered.  A pass of the loop takes a tick period at
\* the least, so the ticks since the last flush are a lower bound of the time.
C29_FlushByCountOrByDuration ==
    [][TickStep /\ (\/ Len(buffer') >= FlushThreshold
                    \/ tick_count' - last_flush >= DurationThreshold)
         => pc' = "flush"]_vars

\* ---------------------------------------------------------------- C30
\* C30: the pending buffer never holds more DiskStats than the flush
\* threshold, and holds fewer when a tick has ended (the loop is in its
\* sleep), whatever ticks, resets and failed inserts there were.
C30_BufferIsBounded ==
    /\ Len(buffer) <= FlushThreshold
    /\ pc = "sleep" => Len(buffer) < FlushThreshold

\* The tick that filled the buffer has ended with an insert that failed:
\* nothing is stored, and the buffer is empty.
C30_Witness ==
    /\ pc = "sleep"
    /\ tick_count = FlushThreshold
    /\ last_flush = tick_count
    /\ faults > 0
    /\ disk_stats = <<>>
    /\ buffer = <<>>

\* ---------------------------------------------------------------- C31
\* C31: each of the three additions gives the sum of its addends, or
\* u64::MAX if the sum is beyond it: it neither wraps to a smaller value
\* nor panics.
C31_AdditionsSaturate ==
    "sums" \in DOMAIN db_returned =>
        /\ ~db_returned.panicked
        /\ \A i \in DOMAIN db_returned.sums :
             db_returned.value[i] = Min(db_returned.sums[i], U64Max)

\* ---------------------------------------------------------------- C32
\* A step that is a run of the reset_database command.
ResetDatabaseStep == ResetDatabase

\* C32 as stated: the rows of process_history that were there before a reset
\* are there after it, with the same values.
C32_ResetKeepsTheDurableLedger ==
    [][ResetDatabaseStep => process_history' = process_history]_vars

\* C32, amended: a reset that returns success has deleted every row of
\* process_history; one that returns an error has left the rows all in place
\* with their values, or deleted them all.
C32_ResetDeletesTheDurableLedger ==
    [][ResetDatabaseStep =>
         /\ db_returned'.ok => process_history' = NoProcesses
         /\ process_history' \in {process_history, NoProcesses}]_vars

\* A reset has returned success on a process_history that had rows, and has
\* left none.
C32_Witness ==
    /\ db_returned.call = "reset_database"
    /\ db_returned.ok
    /\ db_returned.found # NoProcesses
    /\ process_history = NoProcesses
    /\ reset_signal

\* ---------------------------------------------------------------- C33
\* C33: a run of reset_database that returns an error has cleared no table,
\* has not stored the reset flag and has emitted no "database-reset"; one
\* that returns success has emptied disk_stats, zeroed the all-time totals
\* and stored the flag.
C33_ResetIsAllOrNothing ==
    [][ResetDatabaseStep =>
         IF db_returned'.ok
         THEN /\ disk_stats' = <<>>
              /\ alltime_totals' = <<0, 0>>
              /\ reset_signal'
         ELSE /\ disk_stats' = disk_stats
              /\ alltime_totals' = alltime_totals
              /\ process_history' = process_history
              /\ reset_signal' = reset_signal
              /\ db_returned'.emitted = <<>>]_vars

\* ---------------------------------------------------------------- C34
\* A step that is a start of the application.
InitDbStep == InitDb

\* What the all-time totals hold plus what the rows of disk_stats have yet
\* to give them: (read, write).
Accounted(totals, table) ==
    <<totals[1] + MaxSessionTotals(table)[1], totals[2] + MaxSessionTotals(table)[2]>>

\* C34: a start neither loses the maximum session totals of the rows it
\* finds nor counts them twice: they are in the all-time totals after it,
\* or still in disk_stats for a later start, never both and never neither;
\* and a start that succeeds leaves disk_stats empty.
C34_SessionTotalsAddedExactlyOnce ==
    [][InitDbStep =>
         /\ Accounted(alltime_totals', disk_stats') = Accounted(alltime_totals, disk_stats)
         /\ db_returned'.ok => disk_stats' = <<>>]_vars

\* ---------------------------------------------------------------- C35
\* A step that is a call of insert_stats_batch.
InsertBatchStep == InsertBatch

\* C35: a call of insert_stats_batch that returns Ok has appended one row
\* for each DiskStat of the batch, in the order of the batch, to the rows
\* that were there; one that returns an error has left disk_stats as it was.
C35_BatchInsertIsAllOrNothing ==
    [][InsertBatchStep =>
         LET stats == db_returned'.stats
             before == Len(disk_stats)
         IN  IF db_returned'.ok
             THEN /\ Len(disk_stats') = before + Len(stats)
                  /\ \A i \in 1..before : disk_stats'[i] = disk_stats[i]
                  /\ \A i \in 1..Len(stats) : disk_stats'[before + i] = Row(stats[i])
             ELSE disk_stats' = disk_stats]_vars

\* A batch of more than one DiskStat has failed, and none of its rows is in
\* disk_stats.
C35_Witness ==
    /\ db_returned.call = "insert_stats_batch"
    /\ ~db_returned.ok
    /\ Len(db_returned.stats) > 1
    /\ disk_stats = <<>>

\* ---------------------------------------------------------------- C36
\* C36: get_deltas_for_db returns no name with the delta (0, 0); and a call
\* that comes right after another call of it returns the empty map and
\* leaves last_process_snapshot as it was.
C36_DeltasAreNonZeroAndNotRepeated ==
    /\ [](pm_returned.call = "get_deltas_for_db" =>
            \A n \in DOMAIN pm_returned.value : pm_returned.value[n] # <<0, 0>>)
    /\ [][pm_returned.call = "get_deltas_for_db" /\ PmGetDeltasForDb =>
            /\ DOMAIN pm_returned'.value = {}
            /\ pm_last_process_snapshot' = pm_last_process_snapshot]_vars

\* get_deltas_for_db has returned deltas at some time, and its last call
\* has returned none: the snapshot holds the current totals of a name.
C36_Witness ==
    /\ pm_returned.call = "get_deltas_for_db"
    /\ DOMAIN pm_returned.value = {}
    /\ pm_reported # NoProcesses
    /\ \E n \in DOMAIN pm_last_process_snapshot :
         /\ pm_last_process_snapshot[n] # <<0, 0>>
         /\ n \in DOMAIN CurrentTotals(pm_dead_process_history, pm_accumulators)
         /\ pm_last_process_snapshot[n] =
                CurrentTotals(pm_dead_process_history, pm_accumulators)[n]

\* ---------------------------------------------------------------- C37
\* The grouped total of name n after a step: (read, write).
GroupedAfter(n) ==
    EntryOf(GroupByName(pm_dead_process_history', pm_accumulators', pm_sys'), n)

\* The tick delta the pids in ps give: each counter's rise over the value
\* last seen, (read, write).
RiseOf(ps) ==
    <<Sum(ps, [q \in ps |-> SaturatingSub(pm_sys'[q].read_bytes,
                                          pm_last_seen_by_pid[q][1])]),
      Sum(ps, [q \in ps |-> SaturatingSub(pm_sys'[q].written_bytes,
                                          pm_last_seen_by_pid[q][2])])>>

\* C37: on the update that misses a pid it was following, the bytes the
\* pid had accumulated are in the grouped total of its name, and the tick
\* delta is what the other pids give.  On the update that finds a pid it
\* was not following, the pid starts from zero with its counters as
\* baseline, the tick delta is what the other pids give, and no grouped
\* total is below the ledger entry the name had.
C37_MissedPidIsNoDataForTheTick ==
    [][PmUpdateStep =>
         /\ \A p \in DOMAIN pm_last_seen_by_pid \ DOMAIN pm_sys' :
              LET n == pm_accumulators[p].name
              IN  /\ GroupedAfter(n)[1] >=
                         EntryOf(pm_dead_process_history, n)[1] + pm_accumulators[p].read_bytes
                  /\ GroupedAfter(n)[2] >=
                         EntryOf(pm_dead_process_history, n)[2] + pm_accumulators[p].write_bytes
                  /\ pm_returned'.value = RiseOf(DOMAIN pm_sys' \cap DOMAIN pm_last_seen_by_pid)
         /\ \A p \in DOMAIN pm_sys' \ DOMAIN pm_last_seen_by_pid :
              /\ pm_accumulators'[p].read_bytes = 0
              /\ pm_accumulators'[p].write_bytes = 0
              /\ pm_last_seen_by_pid'[p] = <<pm_sys'[p].read_bytes, pm_sys'[p].written_bytes>>
              /\ pm_returned'.value = RiseOf(DOMAIN pm_sys' \cap DOMAIN pm_last_seen_by_pid)
              /\ \A n \in Names :
                   /\ GroupedAfter(n)[1] >= EntryOf(pm_dead_process_history, n)[1]
                   /\ GroupedAfter(n)[2] >= EntryOf(pm_dead_process_history, n)[2]]_vars

\* Pid 1, alone, is back after a miss: what it accumulated as "a" before is
\* in the ledger, its counter stands at 1 from before it was found again,
\* and it has accumulated nothing since; the update returned (0, 0).
C37_Witness ==
    /\ pm_returned = [call |-> "update", value |-> <<0, 0>>]
    /\ DOMAIN pm_sys = {1}
    /\ pm_sys[1].name = "a"
    /\ pm_sys[1].read_bytes = 1
    /\ pm_accumulators[1] = NewAccumulator("a")
    /\ pm_last_seen_by_pid[1] = <<1, 0>>
    /\ pm_dead_process_history = [n \in {"a"} |-> <<2, 0>>]


\* Scheduler s has taken a step.
Stepped(s) == schedulers'[s] # schedulers[s]

\* Scheduler s has ended a run (its statement, or the VACUUM) with an error.
FailedRun(s) ==
    /\ Stepped(s)
    /\ \/ schedulers[s].pc = "run" /\ schedulers'[s].last = "err"
       \/ schedulers[s].pc = "vacuum" /\ schedulers'[s].vacuum = "err"

\* C38: each maintenance scheduler keeps running after a failed run: the
\* failure is only printed (no table, no total and no other part of the state
\* changes, and the scheduler is back at its timer), the next tick of its
\* timer starts its next run, a step of one scheduler leaves the other
\* schedulers and the monitor loop's state as they are, and the VACUUM is
\* reached only from a cleanup that returned Ok.
C38_SchedulersSurviveFailedRuns ==
    /\ [][\A s \in Schedulers :
            /\ FailedRun(s) =>
                 /\ schedulers'[s].pc = "interval"
                 /\ UNCHANGED <<loop_vars, pm_vars, alltime_totals, db_pool>>
            /\ Stepped(s) =>
                 /\ \A t \in Schedulers \ {s} : schedulers'[t] = schedulers[t]
                 /\ UNCHANGED <<pc, buffer, session_read_bytes, session_write_bytes,
                                accumulators, reset_signal, shutdown_signal, pm_vars>>
            /\ (Stepped(s) /\ schedulers'[s].pc = "vacuum") =>
                 /\ s = "cleanup"
                 /\ schedulers[s].pc = "run"
                 /\ schedulers'[s].last = "ok"]_vars
    /\ [](schedulers["cleanup"].pc = "vacuum" => schedulers["cleanup"].last = "ok")
    /\ \A s \in Schedulers :
         (schedulers[s].pc = "interval" /\ schedulers[s].last = "err")
             ~> (schedulers[s].pc = "run")

\* The cleanup's run failed, its timer has fired again and its next run is
\* under way, after an earlier cleanup that was followed by a VACUUM; the
\* WAL checkpoint has failed and is back at its timer, the analysis has
\* succeeded.
C38_Witness ==
    /\ schedulers["cleanup"] = [pc |-> "run", last |-> "err", vacuum |-> "ok"]
    /\ schedulers["wal_checkpoint"] = [pc |-> "interval", last |-> "err", vacuum |-> "none"]
    /\ schedulers["analyze"].last = "ok"

====
